---- MODULE Spec2Model ----
(***************************************************************************)
(* A model of the go-example demos: the viper-config-demo configuration    *)
(* loader (config/config.go), the viper demo's main, and the HTTP demos.   *)
(*                                                                         *)
(* Strings that the code takes apart (file paths, APP_ENV) are sequences   *)
(* of tokens: "/" , "." , ".yaml" and names that contain none of them.     *)
(* A Go pointer is a sequence of length 0 (nil) or 1 (the pointee).        *)
(* A configuration key is the sequence of its dot-separated segments.      *)
(***************************************************************************)
EXTENDS Integers, Sequences, FiniteSets, TLC

VARIABLES
    yaml,        \* the configuration file's content: present key -> value
    yamlParses,  \* whether that content is well-formed YAML
    fs,          \* the paths at which the configuration file exists
    environ,     \* the process environment: variable name -> value (strings)
    appEnv,      \* the value of APP_ENV, as path tokens (<<>>: unset or empty)
    args,        \* os.Args[1:] of the viper demo
    edits,       \* how many times the surroundings were changed before the run
    call,        \* the entry point that ran: "none", "main", "LoadConfigFromEnv", "LoadConfig"
    configFile,  \* main's configFile (<<>> before it is chosen)
    loadedFrom,  \* the path ReadInConfig read (<<>>: none)
    config,      \* the returned *Config (a pointer)
    logOption,   \* the returned *option.LogOption (a pointer)
    err,         \* the returned error ("nil": none)
    manager,     \* the ConfigManager a caller made (a pointer; nil: none)
    demo,        \* the demo program that runs
    pc,          \* the index in Steps(demo) of the step the process is at
    loggerErr,   \* whether the last logger.New returned an error
    listening,   \* whether the demo's HTTP server accepts connections
    exit,        \* how the process ended (a pointer; nil: it has not)
    response,    \* what the last GET sent to the demo got (a pointer)
    versionInfo, \* version.Get(): the values the build injected
    loggers,     \* the loggers constructed so far, by the name of their variable
    records,     \* the log records written so far, in order
    routes,      \* the URL paths registered on the router
    printed,     \* whether the process printed a failure message before it ended
    requests,    \* how many requests were sent to the demo
    served,      \* how many requests the demo's server has served
    tested,      \* how many of its test requests the file logging demo has made
    addr,        \* the address the demo's server was started on ("": none)
    health       \* the outcome of the container's last health check (a pointer)

loadVars == <<yaml, yamlParses, fs, environ, appEnv, args, edits,
              call, configFile, loadedFrom, config, logOption, err, manager>>

demoVars == <<demo, pc, loggerErr, listening, exit, response,
              versionInfo, loggers, records, routes, printed, requests, served, tested, addr, health>>

vars == <<loadVars, demoVars>>

----------------------------------------------------------------------------
(* Bounds *)

\* how many changes (file keys, environment variables, files) precede a run
MaxEdits == 2

\* how many requests are sent to a demo
MaxRequests == 2

----------------------------------------------------------------------------
(* Go values *)

Nil == <<>>
Ref(v) == <<v>>
Deref(p) == p[1]

NoErr == "nil"

\* fmt.Errorf("...: %w", err)
Wrap(msg, e) == msg \o ": " \o e

----------------------------------------------------------------------------
(* Configuration keys *)

kPort        == <<"server", "port">>
kEnvironment == <<"server", "environment">>
kEngine      == <<"logger", "engine">>
kLevel       == <<"logger", "level">>
kFormat      == <<"logger", "format">>
kOtlpEnabled  == <<"logger", "otlp", "enabled">>
kOtlpEndpoint == <<"logger", "otlp", "endpoint">>
kOtlpProtocol == <<"logger", "otlp", "protocol">>
kOtlpTimeout  == <<"logger", "otlp", "timeout">>
kOtlpHeaders  == <<"logger", "otlp", "headers">>

Keys == {kPort, kEnvironment, kEngine, kLevel, kFormat,
         kOtlpEnabled, kOtlpEndpoint, kOtlpProtocol, kOtlpTimeout}

OtlpKeys == {kOtlpEnabled, kOtlpEndpoint, kOtlpProtocol, kOtlpTimeout, kOtlpHeaders}

\* the Go type of the struct field a key is decoded into
IntKeys  == {kPort}
BoolKeys == {kOtlpEnabled}

----------------------------------------------------------------------------
(* The surroundings of a run: files and environment *)

\* README "Complete YAML Structure": config/app.yaml
AppYaml ==
    (kPort :> 8083) @@ (kEnvironment :> "development") @@
    (kEngine :> "slog") @@ (kLevel :> "debug") @@ (kFormat :> "json") @@
    (kOtlpEnabled :> TRUE) @@ (kOtlpEndpoint :> "localhost:4317") @@
    (kOtlpProtocol :> "grpc") @@ (kOtlpTimeout :> "10s") @@
    (kOtlpHeaders :> (("x-api-key" :> "demo-key") @@ ("x-environment" :> "development")))

\* README "Custom Configuration": custom.yaml (no format, no endpoint)
CustomYaml ==
    (kPort :> 9000) @@ (kEnvironment :> "custom") @@
    (kEngine :> "zap") @@ (kLevel :> "info") @@ (kOtlpEnabled :> FALSE)

\* a YAML document with none of the keys
EmptyYaml == [k \in {} |-> TRUE]

YamlPresets == {AppYaml, CustomYaml, EmptyYaml}

\* the values an edit of the file can give a key
YamlValues ==
    (kPort :> {-1, 0, 1, 65535, 65536}) @@
    (kEnvironment :> {}) @@
    (kEngine :> {"ZAP", "logrus", ""}) @@
    (kLevel :> {"Info", "trace"}) @@
    (kFormat :> {"console", "JSON"}) @@
    (kOtlpEnabled :> {}) @@
    (kOtlpEndpoint :> {}) @@
    (kOtlpProtocol :> {"http", "tcp"}) @@
    (kOtlpTimeout :> {"soon"})

\* the environment variables a run can find set, and their values
EnvValues ==
    ("APP_SERVER_PORT" :> {"9000", "0", "70000", "abc"}) @@
    ("APP_LOGGER_ENGINE" :> {"zap", "Slog"}) @@
    ("APP_LOGGER_LEVEL" :> {"debug", ""}) @@
    ("APP_LOGGER_FORMAT" :> {"console"}) @@
    ("APP_LOGGER_OTLP_ENABLED" :> {"true", "maybe"}) @@
    ("APP_LOGGER_OTLP_ENDPOINT" :> {"custom-collector:4317"}) @@
    ("SERVER_PORT" :> {"9000"})

EnvNames == DOMAIN EnvValues

\* values of APP_ENV
AppEnvValues == {<<"app">>, <<"production">>, <<"envs", "/", "production">>}

\* directories and files, relative to the working directory unless they start with "/"
dirConfig == <<"config">>
dirEtcApp == <<"/", "etc", "/", "app">>

PathJoin(dir, file) == IF dir = <<>> THEN file ELSE dir \o <<"/">> \o file

\* the paths at which a configuration file can exist
PathUniverse ==
    { PathJoin(dirConfig, <<"app", ".yaml">>),
      PathJoin(dirConfig, <<"production", ".yaml">>),
      <<"app", ".yaml">>,
      PathJoin(dirEtcApp, <<"app", ".yaml">>),
      PathJoin(<<"envs">>, <<"production", ".yaml">>),
      PathJoin(dirConfig, <<"envs", "/", "production", ".yaml">>) }

\* README "Project Structure": config/app.yaml and config/production.yaml
RepoFiles == { PathJoin(dirConfig, <<"app", ".yaml">>),
               PathJoin(dirConfig, <<"production", ".yaml">>) }

\* the demo's command lines (README "Method 1"), with and without a directory
ArgValues == { <<>>,
               << <<"app", ".yaml">> >>,
               << <<"production", ".yaml">> >>,
               << <<"config", "/", "app", ".yaml">> >>,
               << <<"envs", "/", "production", ".yaml">> >> }

----------------------------------------------------------------------------
(* strings *)

\* strings.Contains(filePath, "/")
ContainsSlash(p) == \E i \in 1..Len(p) : p[i] = "/"

\* the index of the last "/" of a path that has one
LastSlash(p) == CHOOSE i \in 1..Len(p) :
                    /\ p[i] = "/"
                    /\ \A j \in (i+1)..Len(p) : p[j] # "/"

\* strings.TrimSuffix(s, ".yaml")
TrimSuffixYaml(s) ==
    IF Len(s) > 0 /\ s[Len(s)] = ".yaml" THEN SubSeq(s, 1, Len(s) - 1) ELSE s

\* strings.ToUpper on the segments of the configuration keys
ToUpper(seg) ==
    CASE seg = "server"      -> "SERVER"
      [] seg = "port"        -> "PORT"
      [] seg = "environment" -> "ENVIRONMENT"
      [] seg = "logger"      -> "LOGGER"
      [] seg = "engine"      -> "ENGINE"
      [] seg = "level"       -> "LEVEL"
      [] seg = "format"      -> "FORMAT"
      [] seg = "otlp"        -> "OTLP"
      [] seg = "enabled"     -> "ENABLED"
      [] seg = "endpoint"    -> "ENDPOINT"
      [] seg = "protocol"    -> "PROTOCOL"
      [] seg = "timeout"     -> "TIMEOUT"
      [] OTHER               -> seg

\* strconv.ParseInt on the decimal numerals the environment can hold
ParseInt(s) ==
    CASE s = "9000"  -> Ref(9000)
      [] s = "0"     -> Ref(0)
      [] s = "70000" -> Ref(70000)
      [] OTHER       -> Nil

\* strconv.ParseBool
ParseBool(s) ==
    CASE s \in {"1", "t", "T", "TRUE", "true", "True"}    -> Ref(TRUE)
      [] s \in {"0", "f", "F", "FALSE", "false", "False"} -> Ref(FALSE)
      [] OTHER                                            -> Nil

\* time.ParseDuration on the timeouts a file can hold
ValidDuration(s) == s \in {"10s", "5s"}

----------------------------------------------------------------------------
(* viper, as config.go sets it up *)

\* setDefaults without the logger defaults
DefaultsWithoutLogger ==
    (kPort :> 8080) @@ (kEnvironment :> "development")

\* setDefaults (the keys of this model)
Defaults ==
    (kPort :> 8080) @@ (kEnvironment :> "development") @@
    (kEngine :> "slog") @@ (kLevel :> "info") @@ (kFormat :> "json")

\* v.SetEnvPrefix("APP")
EnvPrefix == "APP"

\* v.SetEnvKeyReplacer(strings.NewReplacer(".", "_")) applied to the "." that joins two segments
EnvKeyReplacer(sep) == IF sep = "." THEN "_" ELSE sep

RECURSIVE JoinUpper(_, _)
JoinUpper(key, sep) ==
    IF Len(key) = 0 THEN ""
    ELSE IF Len(key) = 1 THEN ToUpper(key[1])
    ELSE ToUpper(key[1]) \o sep \o JoinUpper(Tail(key), sep)

\* the variable AutomaticEnv looks up for a key: the prefix, "_", and the
\* upper-cased key with its dots replaced
EnvKey(key) == EnvPrefix \o "_" \o JoinUpper(key, EnvKeyReplacer("."))

\* viper's getEnv: an unset or empty variable counts as not set
GetEnv(e, name) ==
    IF name \in DOMAIN e /\ e[name] # "" THEN Ref(e[name]) ELSE Nil

\* a lookup that lets the file win over the environment
FindFileFirst(y, e, key) ==
    IF key \in DOMAIN y
        THEN Ref([from |-> "file", val |-> y[key]])
    ELSE IF GetEnv(e, EnvKey(key)) # Nil
        THEN Ref([from |-> "env", val |-> Deref(GetEnv(e, EnvKey(key)))])
    ELSE IF key \in DOMAIN Defaults
        THEN Ref([from |-> "default", val |-> Defaults[key]])
    ELSE Nil

\* viper's lookup of one key: environment, then the file, then the default
Find(y, e, key) ==
    IF GetEnv(e, EnvKey(key)) # Nil
        THEN Ref([from |-> "env", val |-> Deref(GetEnv(e, EnvKey(key)))])
    ELSE IF key \in DOMAIN y
        THEN Ref([from |-> "file", val |-> y[key]])
    ELSE IF key \in DOMAIN Defaults
        THEN Ref([from |-> "default", val |-> Defaults[key]])
    ELSE Nil

\* viper's AllKeys: the keys of the file and of the defaults; a key that only
\* the environment names is not among them
AllKeys(y) == DOMAIN y \cup DOMAIN Defaults

\* viper's AllSettings, which Unmarshal decodes
AllSettings(y, e) == [k \in AllKeys(y) |-> Deref(Find(y, e, k))]

\* mapstructure's weakly typed decoding: a value of the environment is a string
DecodeInt(f)  == IF f.from = "env" THEN ParseInt(f.val) ELSE Ref(f.val)
DecodeBool(f) == IF f.from = "env" THEN ParseBool(f.val) ELSE Ref(f.val)

Str(settings, key) == IF key \in DOMAIN settings THEN settings[key].val ELSE ""

\* strings.ToLower of the header names written in the files
ToLowerName(name) ==
    CASE name = "X-API-Key"     -> "x-api-key"
      [] name = "Authorization" -> "authorization"
      [] OTHER -> name

\* a viper that keeps the keys of a map as the file writes them
HeadersAsWritten(settings) ==
    IF kOtlpHeaders \in DOMAIN settings THEN settings[kOtlpHeaders].val
    ELSE [h \in {} |-> ""]

\* the map under logger.otlp.headers: viper holds every key of a file in
\* lower case, the keys of a nested map included (a file with two names that
\* differ in case only is not written here)
Headers(settings) ==
    IF kOtlpHeaders \in DOMAIN settings
    THEN [h \in {ToLowerName(n) : n \in DOMAIN settings[kOtlpHeaders].val} |->
            settings[kOtlpHeaders].val[
                CHOOSE n \in DOMAIN settings[kOtlpHeaders].val : ToLowerName(n) = h]]
    ELSE [h \in {} |-> ""]

\* the zero value of option.OTLPOption and of Config (NewConfigManager's &Config{})
ZeroOTLP == [Enabled |-> Nil, Endpoint |-> "", Protocol |-> "", Timeout |-> "",
             Headers |-> [h \in {} |-> ""]]
ZeroConfig == [Server |-> [Port |-> 0, Environment |-> ""],
               Logger |-> [Engine |-> "", Level |-> "", Format |-> "", OTLP |-> Nil,
                           InitialFields |-> Nil]]

\* the fields of the settings that cannot be decoded into their Go type.
\* durationField: whether option.OTLPOption declares Timeout as a
\* time.Duration (viper's decode hook then parses it) or as a string; the
\* option package is not part of this repository, so both are possible.
DecodeErrors(settings, durationField) ==
    { k \in DOMAIN settings :
        \/ k \in IntKeys /\ DecodeInt(settings[k]) = Nil
        \/ k \in BoolKeys /\ DecodeBool(settings[k]) = Nil
        \/ k = kOtlpTimeout /\ durationField /\ ~ValidDuration(settings[k].val) }

\* the Config that the decodable settings give: a field whose key is not
\* among them keeps its zero value
Decoded(good) ==
    [Server |-> [Port |-> IF kPort \in DOMAIN good
                          THEN Deref(DecodeInt(good[kPort])) ELSE 0,
                 Environment |-> Str(good, kEnvironment)],
     Logger |-> [Engine |-> Str(good, kEngine),
                 Level  |-> Str(good, kLevel),
                 Format |-> Str(good, kFormat),
                 OTLP   |-> IF DOMAIN good \cap OtlpKeys = {} THEN Nil
                            ELSE Ref([Enabled  |-> IF kOtlpEnabled \in DOMAIN good
                                                    THEN DecodeBool(good[kOtlpEnabled])
                                                    ELSE Nil,
                                      Endpoint |-> Str(good, kOtlpEndpoint),
                                      Protocol |-> Str(good, kOtlpProtocol),
                                      Timeout  |-> Str(good, kOtlpTimeout),
                                      Headers  |-> Headers(good)]),
                 InitialFields |-> Nil]]

\* v.Unmarshal(cm.config): every key of AllSettings is decoded into its field
Unmarshal(settings, durationField) ==
    [ok  |-> DecodeErrors(settings, durationField) = {},
     cfg |-> Decoded([k \in DOMAIN settings \ DecodeErrors(settings, durationField)
                        |-> settings[k]])]

----------------------------------------------------------------------------
(* config.go *)

MaxPort == 65535

validEngines == {"zap", "slog"}
validLevels  == {"debug", "info", "warn", "error", "fatal"}
validFormats == {"json", "console"}

\* a validation that compares the engine without regard to letter case
validateConfigAnyCase(cfg) ==
    IF cfg.Server.Port <= 0 \/ cfg.Server.Port > MaxPort
        THEN "invalid server port"
    ELSE IF cfg.Logger.Engine \notin validEngines \cup {"ZAP", "Zap", "SLOG", "Slog"}
        THEN "invalid logger engine"
    ELSE IF cfg.Logger.Level \notin validLevels
        THEN "invalid logger level"
    ELSE IF cfg.Logger.Format \notin validFormats
        THEN "invalid logger format"
    ELSE NoErr

\* a validation whose port check is off by one at the lower end
validateConfigPortFromZero(cfg) ==
    IF cfg.Server.Port < 0 \/ cfg.Server.Port > MaxPort
        THEN "invalid server port"
    ELSE IF cfg.Logger.Engine \notin validEngines
        THEN "invalid logger engine"
    ELSE IF cfg.Logger.Level \notin validLevels
        THEN "invalid logger level"
    ELSE IF cfg.Logger.Format \notin validFormats
        THEN "invalid logger format"
    ELSE NoErr

\* ConfigManager.validateConfig
validateConfig(cfg) ==
    IF cfg.Server.Port <= 0 \/ cfg.Server.Port > MaxPort
        THEN "invalid server port"
    ELSE IF cfg.Logger.Engine \notin validEngines
        THEN "invalid logger engine"
    ELSE IF cfg.Logger.Level \notin validLevels
        THEN "invalid logger level"
    ELSE IF cfg.Logger.Format \notin validFormats
        THEN "invalid logger format"
    ELSE NoErr

\* viper's absPathify: the directory relative to the working directory
absPathify(dir) ==
    IF dir = <<".">> THEN <<>>
    ELSE IF Len(dir) >= 2 /\ dir[1] = "." /\ dir[2] = "/" THEN SubSeq(dir, 3, Len(dir))
    ELSE dir

\* v.AddConfigPath(in): an empty path and a path already listed add nothing
AddConfigPath(paths, in) ==
    IF in = <<>> THEN paths
    ELSE IF \E i \in 1..Len(paths) : paths[i] = absPathify(in) THEN paths
    ELSE Append(paths, absPathify(in))

\* LoadConfig's search path
ConfigPaths(configPath) ==
    LET p0 == IF configPath # <<>> THEN AddConfigPath(<<>>, configPath) ELSE <<>>
        p1 == AddConfigPath(p0, <<".", "/", "config">>)
        p2 == AddConfigPath(p1, <<".">>)
    IN AddConfigPath(p2, dirEtcApp)

\* LoadConfig's configuration name
ConfigName(configName, aenv) ==
    IF configName # <<>> THEN configName
    ELSE IF aenv = <<>> THEN <<"app">> ELSE aenv

\* viper's SupportedExts, those of the files of this model
SupportedExts == <<".yaml">>

\* viper's searchInPath: the name with a supported extension, then (a
\* configuration type being set) the bare name
Candidates(dir, name) ==
    [i \in 1..(Len(SupportedExts) + 1) |->
        IF i <= Len(SupportedExts)
        THEN PathJoin(dir, Append(name, SupportedExts[i]))
        ELSE PathJoin(dir, name)]

RECURSIVE FlattenSeqs(_)
FlattenSeqs(ss) == IF ss = <<>> THEN <<>> ELSE Head(ss) \o FlattenSeqs(Tail(ss))

\* every file ReadInConfig tries, in order
SearchOrder(paths, name) ==
    FlattenSeqs([i \in 1..Len(paths) |-> Candidates(paths[i], name)])

\* viper's findConfigFile: the first candidate that exists (<<>>: none)
FindConfigFile(files, paths, name) ==
    LET order == SearchOrder(paths, name)
        hits  == { i \in 1..Len(order) : order[i] \in files }
    IN IF hits = {} THEN <<>>
       ELSE order[CHOOSE i \in hits : \A j \in hits : i <= j]

\* what a call of LoadConfig leaves behind: the returned (*Config, error)
\* and the manager's own cm.config
LoadResult(cfgPtr, e, cmCfg, file) ==
    [config |-> cfgPtr, err |-> e, cmConfig |-> cmCfg, loadedFrom |-> file]

\* LoadConfig, lines 84-99: read the file, unmarshal, validate
ReadUnmarshalValidate(file, parses, u, invalid) ==
    IF file = <<>>
        THEN LoadResult(Nil, Wrap("failed to read config file", "config file not found"),
                        Ref(ZeroConfig), file)
    ELSE IF ~parses
        THEN LoadResult(Nil, Wrap("failed to read config file", "while parsing config"),
                        Ref(ZeroConfig), file)
    ELSE IF ~u.ok
        THEN LoadResult(Nil, Wrap("failed to unmarshal config", "decoding failed"),
                        Ref(u.cfg), file)
    ELSE IF invalid # NoErr
        THEN LoadResult(Nil, Wrap("config validation failed", invalid), Ref(u.cfg), file)
    ELSE LoadResult(Ref(u.cfg), NoErr, Ref(u.cfg), file)

Validated(file, parses, u) == ReadUnmarshalValidate(file, parses, u, validateConfig(u.cfg))

\* ConfigManager.LoadConfig on a fresh manager, in the surroundings
\* (files, y, parses, e, aenv)
LoadConfigIn(files, y, parses, e, aenv, configPath, configName, durationField) ==
    Validated(FindConfigFile(files, ConfigPaths(configPath), ConfigName(configName, aenv)),
              parses,
              Unmarshal(AllSettings(y, e), durationField))

\* ConfigManager.LoadConfig in the current surroundings
LoadConfig(configPath, configName, durationField) ==
    LoadConfigIn(fs, yaml, yamlParses, environ, appEnv, configPath, configName, durationField)

\* ConfigManager.ToLoggerOption: a pointer to the Logger field of cm.config
ToLoggerOption(cmConfig) ==
    IF cmConfig = Nil
        THEN [logOption |-> Nil, err |-> "configuration not loaded"]
        ELSE [logOption |-> Ref(Deref(cmConfig).Logger), err |-> NoErr]

\* LoadConfigFromFile's split of its argument into directory and name
SplitConfigPath(filePath) ==
    IF ContainsSlash(filePath)
        THEN SubSeq(filePath, 1, LastSlash(filePath) - 1)
        ELSE <<".", "/", "config">>

SplitConfigName(filePath) ==
    IF ContainsSlash(filePath)
        THEN TrimSuffixYaml(SubSeq(filePath, LastSlash(filePath) + 1, Len(filePath)))
        ELSE TrimSuffixYaml(filePath)

\* a LoadConfigFromFile that hands out the manager's configuration with the error
FromFileResultKeepsConfig(r, o) ==
    IF r.err # NoErr
        THEN [config |-> r.cmConfig, logOption |-> Nil, err |-> r.err,
              loadedFrom |-> r.loadedFrom]
    ELSE IF o.err # NoErr
        THEN [config |-> r.cmConfig, logOption |-> Nil, err |-> o.err,
              loadedFrom |-> r.loadedFrom]
    ELSE [config |-> r.config, logOption |-> o.logOption, err |-> NoErr,
          loadedFrom |-> r.loadedFrom]

\* LoadConfigFromFile, lines 195-207: the two error returns and the success
FromFileResult(r, o) ==
    IF r.err # NoErr
        THEN [config |-> Nil, logOption |-> Nil, err |-> r.err, loadedFrom |-> r.loadedFrom]
    ELSE IF o.err # NoErr
        THEN [config |-> Nil, logOption |-> Nil, err |-> o.err, loadedFrom |-> r.loadedFrom]
    ELSE [config |-> r.config, logOption |-> o.logOption, err |-> NoErr,
          loadedFrom |-> r.loadedFrom]

WithLoggerOption(r) == FromFileResult(r, ToLoggerOption(r.cmConfig))

\* LoadConfigFromFile
LoadConfigFromFile(filePath, durationField) ==
    WithLoggerOption(LoadConfig(SplitConfigPath(filePath), SplitConfigName(filePath),
                                durationField))

\* LoadConfigFromEnv
LoadConfigFromEnv(durationField) ==
    LoadConfigFromFile((IF appEnv = <<>> THEN <<"app">> ELSE appEnv) \o <<".yaml">>,
                       durationField)

----------------------------------------------------------------------------
(* viper-config-demo/main.go *)

\* main's choice of the configuration file
\* a main that looks at APP_ENV before it looks at its arguments
mainConfigFileEnvFirst(argv, aenv) ==
    IF aenv # <<>> THEN aenv \o <<".yaml">>
    ELSE IF Len(argv) > 0 THEN argv[1]
    ELSE <<"app", ".yaml">>

mainConfigFile(argv, aenv) ==
    IF Len(argv) > 0 THEN argv[1]
    ELSE (IF aenv = <<>> THEN <<"app">> ELSE aenv) \o <<".yaml">>

----------------------------------------------------------------------------
(* The demos *)

ginDemo              == "gin-demo"
defaultFieldsDemo    == "default-fields-demo"
fileLoggingDemo      == "file-logging-demo"
viperConfigDemo      == "viper-config-demo"
realWorldDemo        == "real-world-initial-fields-demo"
initialFieldsGinDemo == "initial-fields-gin-demo"
customFieldsDemo     == "custom-initial-fields-demo"

Demos == { ginDemo, defaultFieldsDemo, fileLoggingDemo, viperConfigDemo,
           realWorldDemo, initialFieldsGinDemo, customFieldsDemo }

----------------------------------------------------------------------------
(* The values the build injects (github.com/kart-io/version) *)

\* version.Get().GitCommit: unset by a plain build, a hash under the Makefile's -ldflags
CommitValues == {"unknown", "3f2a9c1b7d44"}

\* version.Get(): ServiceName and GitVersion are empty strings unless the
\* build sets them with -ldflags (the viper demo tests them against "")
VersionInfos ==
    { [ServiceName |-> n[1], GitVersion |-> n[2], GitCommit |-> c,
       BuildDate |-> "2025-09-01T00:00:00Z", GoVersion |-> "go1.23"] :
      n \in {<<"", "">>, <<"logger-demo", "v1.2.0">>}, c \in CommitValues }

\* the build of the Makefile, which sets every value
MakefileBuild == [ServiceName |-> "logger-demo", GitVersion |-> "v1.2.0",
                  GitCommit |-> "3f2a9c1b7d44", BuildDate |-> "2025-09-01T00:00:00Z",
                  GoVersion |-> "go1.23"]

\* s[:8] of a string of at least 8 bytes
Short8(s) == IF s = "3f2a9c1b7d44" THEN "3f2a9c1b" ELSE s

\* getEnvOrDefault(key, defaultValue)
getEnvOrDefault(e, key, defaultValue) ==
    IF key \in DOMAIN e /\ e[key] # "" THEN e[key] ELSE defaultValue

\* port := ":8082"; if envPort := os.Getenv("PORT"); envPort != "" { port = ":" + envPort }
ginPort(e) ==
    IF "PORT" \in DOMAIN e /\ e["PORT"] # "" THEN ":" \o e["PORT"] ELSE ":8082"

\* an environment without variables
NoEnviron == [n \in {} |-> ""]

----------------------------------------------------------------------------
(* The logger library (github.com/kart-io/logger) as src/README.md and the
   demos' comments describe it *)

\* a set of fields: a function from field names to values (written as strings)
NoFields == [k \in {} |-> ""]

LevelNames == <<"debug", "info", "warn", "error", "fatal">>
LevelRank(l) == CHOOSE i \in 1..Len(LevelNames) : LevelNames[i] = l

\* a logger of level threshold writes the records of that level and above
Enabled(threshold, l) == LevelRank(l) >= LevelRank(threshold)

kServiceName    == "service.name"
kServiceVersion == "service.version"

\* "service.name and service.version are set to "unknown" when not provided"
DefaultServiceFields == (kServiceName :> "unknown") @@ (kServiceVersion :> "unknown")

\* InitialFields of an option: nil (not set) or a map
FieldsOf(initialFields) ==
    IF initialFields = Nil THEN NoFields ELSE Deref(initialFields)

\* a library that adds no default to the fields it is given
ConstantFieldsAsGiven(initialFields) == FieldsOf(initialFields)

\* the fields logger.New attaches to every record of the logger
ConstantFields(initialFields) == FieldsOf(initialFields) @@ DefaultServiceFields

LogOption(level, outputPaths, initialFields) ==
    [Level |-> level, OutputPaths |-> outputPaths, InitialFields |-> initialFields]

\* logger.New(opt): the logger object
New(opt) ==
    [level   |-> opt.Level,
     paths   |-> opt.OutputPaths,
     initial |-> opt.InitialFields,
     fields  |-> ConstantFields(opt.InitialFields),
     derived |-> FALSE]

\* l.With(k1, v1, ...): a logger with the same outputs whose records also
\* carry the given fields (a field l has already is shown with the given value)
With(l, kv) == [l EXCEPT !.fields = kv @@ l.fields, !.derived = TRUE]

\* a library that writes every record to stdout, whatever the option says
RecordOnStdout(name, l, level, msg, kv) ==
    [logger |-> name, level |-> level, msg |-> msg, fields |-> kv @@ l.fields,
     paths |-> {"stdout"}]

\* a record that carries the fields of the call only
RecordWithoutConstantFields(name, l, level, msg, kv) ==
    [logger |-> name, level |-> level, msg |-> msg, fields |-> kv,
     paths |-> l.paths]

\* the record of l.Infow(msg, k1, v1, ...) and of the other levels' methods:
\* the fields of the call come over the logger's fields of the same name
Record(name, l, level, msg, kv) ==
    [logger |-> name, level |-> level, msg |-> msg, fields |-> kv @@ l.fields,
     paths |-> l.paths]

\* one log call: a sequence of no record, or of one
Emit(name, l, level, msg, kv) ==
    IF Enabled(l.level, level) THEN <<Record(name, l, level, msg, kv)>> ELSE <<>>

----------------------------------------------------------------------------
(* The demo programs: what each main does, step by step *)

\* the steps of a main:
\*   "load"    config.LoadConfigFromFile        "mkdir"  os.MkdirAll("logs")
\*   "fields"  logOption.WithInitialFields(...).AddInitialField(...)
\*   "logger"  lg, err := logger.New(option)    "commit" versionInfo.GitCommit[:8]
\*   "with"    lg := from.With(kv...)           "log"    lg.<Level>(msg, kv...)
\*   "routes"  the router and its r.GET calls   "listen" r.Run / srv.ListenAndServe
\*   "return"  main returns
SOp(op) == [op |-> op, lg |-> "", from |-> "", level |-> "", msg |-> "",
            kv |-> NoFields]
SNew(lg) == [op |-> "logger", lg |-> lg, from |-> "", level |-> "", msg |-> "",
             kv |-> NoFields]
SWith(lg, from, kv) == [op |-> "with", lg |-> lg, from |-> from, level |-> "",
                        msg |-> "", kv |-> kv]
SLog(lg, level, msg, kv) == [op |-> "log", lg |-> lg, from |-> "", level |-> level,
                             msg |-> msg, kv |-> kv]

\* a value that differs from run to run (a time, a latency, a process id)
SomeValue == "0"

\* "service.name", versionInfo.ServiceName, "service.version", versionInfo.GitVersion
ServiceFields(v) == (kServiceName :> v.ServiceName) @@ (kServiceVersion :> v.GitVersion)

(* gin-demo/main.go, package main of the Gin demo *)
OptionsGinDemo(v) ==
    "coreLogger" :> LogOption("info", {"stdout"}, Nil)

ProgramGinDemo(v, e) ==
    << SNew("coreLogger"),
       SOp("commit"),
       SWith("serviceLogger", "coreLogger",
             ("commit" :> Short8(v.GitCommit)) @@ ("build_date" :> v.BuildDate)),
       SOp("routes"),
       SLog("serviceLogger", "info", "Starting server",
            ("port" :> ginPort(e)) @@ ("endpoints" :> "/ /health /version") @@
            ("go_version" :> v.GoVersion) @@ ("platform" :> SomeValue)),
       SOp("listen") >>

(* gin-demo/main.go, package main of the Default Fields Demo *)
OptionsDefaultFieldsDemo(v) ==
    ("basicLogger" :> LogOption("info", {"stdout"}, Nil)) @@
    ("emptyLogger" :> LogOption("info", {"stdout"}, Ref(NoFields))) @@
    ("partialLogger" :> LogOption("info", {"stdout"},
        Ref(kServiceName :> "partial-demo-service"))) @@
    ("completeLogger" :> LogOption("info", {"stdout"},
        Ref(ServiceFields(v) @@ ("environment" :> "demo")))) @@
    ("customLogger" :> LogOption("info", {"stdout"},
        Ref((kServiceName :> "custom-service") @@
            (kServiceVersion :> "custom-version") @@ ("team" :> "platform"))))

ProgramDefaultFieldsDemo(v) ==
    << SNew("basicLogger"),
       SLog("basicLogger", "info", "Basic logger message", "test" :> "value1"),
       SNew("emptyLogger"),
       SLog("emptyLogger", "info", "Empty initial fields message", "test" :> "value2"),
       SNew("partialLogger"),
       SLog("partialLogger", "info", "Partial fields message", "test" :> "value3"),
       SNew("completeLogger"),
       SLog("completeLogger", "info", "Complete fields message", "test" :> "value4"),
       SNew("customLogger"),
       SLog("customLogger", "info", "Custom fields message", "test" :> "value5"),
       SOp("return") >>

(* file-logging-demo/main.go *)
singleLog      == "logs/single.log"
multipleLog    == "logs/multiple.log"
infoLog        == "logs/info.log"
errorLog       == "logs/error.log"
rotatedLog     == "logs/rotated-<timestamp>.log"
accessLog      == "logs/access.log"
applicationLog == "logs/application.log"

OptionsFileLoggingDemo(v) ==
    ("single.logger" :> LogOption("info", {singleLog}, Ref(ServiceFields(v)))) @@
    ("multiple.coreLogger" :> LogOption("debug", {"stdout", multipleLog}, Nil)) @@
    ("coreInfoLogger" :> LogOption("info", {infoLog}, Nil)) @@
    ("coreErrorLogger" :> LogOption("error", {errorLog}, Nil)) @@
    ("rotation.coreLogger" :> LogOption("info", {rotatedLog}, Nil)) @@
    ("coreAccessLogger" :> LogOption("info", {accessLog}, Nil)) @@
    ("coreAppLogger" :> LogOption("debug", {"stdout", applicationLog}, Nil))

singleFileDemo(v) ==
    << SNew("single.logger"),
       SLog("single.logger", "info", "Single file logging demo started", NoFields),
       SLog("single.logger", "info", "User login",
            ("user_id" :> "12345") @@ ("ip" :> "192.168.1.100")),
       SLog("single.logger", "warn", "High memory usage",
            ("usage" :> "85%") @@ ("threshold" :> "80%")),
       SLog("single.logger", "error", "Database connection failed",
            ("error" :> "connection timeout") @@ ("retry_count" :> "3")) >>

multipleOutputDemo(v) ==
    << SNew("multiple.coreLogger"),
       SWith("multiple.logger", "multiple.coreLogger", ServiceFields(v)),
       SWith("multiple.serviceLogger", "multiple.logger",
             ("component" :> "payment-service") @@ ("environment" :> "production")),
       SLog("multiple.serviceLogger", "debug", "Payment processing started", NoFields),
       SLog("multiple.serviceLogger", "info", "Payment validation successful", NoFields),
       SLog("multiple.serviceLogger", "warn", "Payment amount exceeds daily limit",
            NoFields),
       SLog("multiple.serviceLogger", "error", "Payment gateway error", NoFields) >>

levelBasedDemo(v) ==
    << SNew("coreInfoLogger"),
       SWith("infoLogger", "coreInfoLogger", ServiceFields(v)),
       SNew("coreErrorLogger"),
       SWith("errorLogger", "coreErrorLogger", ServiceFields(v)),
       SLog("infoLogger", "info", "Application started successfully", NoFields),
       SLog("infoLogger", "warn", "Configuration file not found, using defaults",
            NoFields),
       SLog("infoLogger", "error", "Failed to connect to database", NoFields),
       SLog("errorLogger", "error", "Critical system error", NoFields),
       SLog("errorLogger", "error",
            "System shutdown due to critical error (simulated fatal)", NoFields) >>

BusinessOperations ==
    <<"user_registration", "order_creation", "payment_processing",
      "inventory_update", "email_notification">>

fileRotationDemo(v) ==
    << SNew("rotation.coreLogger"),
       SWith("rotation.logger", "rotation.coreLogger", ServiceFields(v)) >> \o
    [i \in 1..Len(BusinessOperations) |->
        SLog("rotation.logger", "info", "Business operation",
             ("operation" :> BusinessOperations[i]) @@ ("step" :> ToString(i)) @@
             ("timestamp" :> SomeValue))]

webServerDemo(v) ==
    << SNew("coreAccessLogger"),
       SWith("accessLogger", "coreAccessLogger", ServiceFields(v)),
       SNew("coreAppLogger"),
       SWith("appLogger", "coreAppLogger", ServiceFields(v)),
       SWith("accessLoggerWithContext", "accessLogger", "component" :> "http-access"),
       SWith("appLoggerWithContext", "appLogger", "component" :> "application"),
       SOp("routes"),
       SLog("appLoggerWithContext", "info", "Starting web server",
            ("port" :> "8084") @@ ("access_log" :> accessLog) @@
            ("app_log" :> applicationLog)),
       SOp("listen") >>

ProgramFileLoggingDemo(v) ==
    <<SOp("mkdir")>> \o singleFileDemo(v) \o multipleOutputDemo(v) \o
    levelBasedDemo(v) \o fileRotationDemo(v) \o webServerDemo(v)

(* viper-config-demo/main.go *)
\* the text of a path
RECURSIVE PathText(_)
PathText(p) == IF p = <<>> THEN "" ELSE p[1] \o PathText(Tail(p))

getShortCommit(commit) == IF Len(commit) >= 8 THEN Short8(commit) ELSE commit

\* logOption.WithInitialFields(...).AddInitialField(...).AddInitialField(...)
ViperInitialFields(v, file, cfg) ==
    ServiceFields(v) @@
    ("config_file" :> PathText(file)) @@
    ("environment" :> cfg.Server.Environment) @@
    ("commit" :> getShortCommit(v.GitCommit)) @@
    ("build_date" :> v.BuildDate)

\* the option of the viper demo: the loaded logger section (its output_paths
\* are the default, stdout) with the initial fields added; no option before
\* the configuration is loaded
OptionsViperConfigDemo(v, file, cfgp) ==
    IF cfgp = Nil THEN [lg \in {} |-> Nil]
    ELSE "serviceLogger" :>
            LogOption(Deref(cfgp).Logger.Level, {"stdout"},
                      Ref(ViperInitialFields(v, file, Deref(cfgp))))

ProgramViperConfigDemo(v, cfgp) ==
    << SOp("load"),
       SOp("fields"),
       SNew("serviceLogger"),
       SLog("serviceLogger", "info", "Application starting",
            ("config_loaded" :> "true") @@
            ("server_port" :> IF cfgp = Nil THEN "" ELSE ToString(Deref(cfgp).Server.Port)) @@
            ("logger_engine" :> IF cfgp = Nil THEN "" ELSE Deref(cfgp).Logger.Engine) @@
            ("otlp_enabled" :> SomeValue)),
       SOp("routes"),
       SLog("serviceLogger", "info", "Starting server",
            ("port" :> IF cfgp = Nil THEN "" ELSE ":" \o ToString(Deref(cfgp).Server.Port)) @@
            ("environment" :> IF cfgp = Nil THEN "" ELSE Deref(cfgp).Server.Environment) @@
            ("endpoints" :> "/ /health /version /config /logger/test") @@
            ("logger_config" :> SomeValue)),
       SOp("listen") >>

(* unnamed/part_002: the Real-World Initial Fields demo *)
RealWorldInitialFields(v, e) ==
    (kServiceName :> getEnvOrDefault(e, "SERVICE_NAME", v.ServiceName)) @@
    (kServiceVersion :> getEnvOrDefault(e, "SERVICE_VERSION", v.GitVersion)) @@
    ("environment" :> getEnvOrDefault(e, "ENVIRONMENT", "development")) @@
    ("region" :> getEnvOrDefault(e, "AWS_REGION", "us-west-2")) @@
    ("az" :> getEnvOrDefault(e, "AWS_AZ", "us-west-2a")) @@
    ("pod_name" :> getEnvOrDefault(e, "POD_NAME", "local-pod")) @@
    ("node_name" :> getEnvOrDefault(e, "NODE_NAME", "local-node")) @@
    ("namespace" :> getEnvOrDefault(e, "POD_NAMESPACE", "default")) @@
    ("cluster" :> getEnvOrDefault(e, "CLUSTER_NAME", "local-cluster")) @@
    ("app_name" :> "customer-api") @@
    ("app_version" :> "v2.1.0") @@
    ("go_version" :> v.GoVersion) @@
    ("build_date" :> v.BuildDate) @@
    ("commit" :> Short8(v.GitCommit)) @@
    ("team" :> "platform") @@
    ("squad" :> "api-team") @@
    ("owner" :> "platform-team@company.com") @@
    ("on_call" :> getEnvOrDefault(e, "ONCALL_CONTACT", "platform-oncall@company.com")) @@
    ("business_unit" :> "customer-success") @@
    ("cost_center" :> "engineering") @@
    ("project" :> "customer-portal-v2") @@
    ("server_port" :> getEnvOrDefault(e, "PORT", "8080")) @@
    ("log_level" :> "info") @@
    ("metrics_port" :> "9090") @@
    ("health_port" :> "8081") @@
    ("data_classification" :> "confidential") @@
    ("compliance_scope" :> "pci-dss") @@
    ("retention_policy" :> "90-days") @@
    ("monitoring.team" :> "platform") @@
    ("monitoring.runbook" :> "https://wiki.company.com/runbooks/customer-api") @@
    ("monitoring.dashboard" :> "https://grafana.company.com/d/customer-api") @@
    ("monitoring.alert_level" :> "critical") @@
    ("feature.new_auth" :> "true") @@
    ("feature.rate_limiting" :> "true") @@
    ("feature.caching" :> "false") @@
    ("max_connections" :> "1000") @@
    ("timeout_seconds" :> "30") @@
    ("workers" :> "4")

OptionsRealWorldDemo(v, e) ==
    "appLogger" :> LogOption("info", {"stdout", "logs/app.log"},
                             Ref(RealWorldInitialFields(v, e)))

ProgramRealWorldDemo(v) ==
    << SOp("commit"),
       SNew("appLogger"),
       SOp("routes"),
       SLog("appLogger", "info", "Server starting",
            ("startup_time" :> SomeValue) @@ ("pid" :> SomeValue) @@
            ("available_endpoints" :> "/ /users/:id /users /health")),
       SOp("listen") >>

(* unnamed/part_003: the Gin demo with InitialFields *)
OptionsInitialFieldsGinDemo(v) ==
    "serviceLogger" :>
        LogOption("info", {"stdout"},
                  Ref(ServiceFields(v) @@ ("commit" :> Short8(v.GitCommit)) @@
                      ("build_date" :> v.BuildDate)))

ProgramInitialFieldsGinDemo(v, e) ==
    << SOp("commit"),
       SNew("serviceLogger"),
       SOp("routes"),
       SLog("serviceLogger", "info", "Starting server",
            ("port" :> ginPort(e)) @@ ("endpoints" :> "/ /health /version") @@
            ("go_version" :> v.GoVersion) @@ ("platform" :> SomeValue)),
       SOp("listen") >>

(* unnamed/part_005: the Custom Initial Fields demo *)
CustomInitialFields(v, e) ==
    ServiceFields(v) @@
    ("environment" :> "production") @@
    ("region" :> "us-west-2") @@
    ("datacenter" :> "dc-1") @@
    ("team" :> "platform") @@
    ("squad" :> "infrastructure") @@
    ("maintainer" :> "john.doe@company.com") @@
    ("language" :> "go") @@
    ("framework" :> "gin") @@
    ("port" :> "8080") @@
    ("app_type" :> "web-api") @@
    ("health_check" :> "true") @@
    ("debug_mode" :> "false") @@
    ("cost_center" :> "engineering") @@
    ("project" :> "customer-portal") @@
    ("container_id" :> getEnvOrDefault(e, "CONTAINER_ID", "container-abc123")) @@
    ("node_name" :> getEnvOrDefault(e, "NODE_NAME", "node-worker-01")) @@
    ("data_classification" :> "internal") @@
    ("retention_days" :> "30")

OptionsCustomFieldsDemo(v, e) ==
    "logger" :> LogOption("info", {"stdout"}, Ref(CustomInitialFields(v, e)))

ProgramCustomFieldsDemo(v) ==
    << SNew("logger"),
       SLog("logger", "info", "Application started successfully", NoFields),
       SLog("logger", "info", "User login",
            ("user_id" :> "user-12345") @@ ("ip_address" :> "192.168.1.100") @@
            ("login_method" :> "oauth2")),
       SLog("logger", "error", "Database connection failed",
            ("error" :> "connection timeout") @@ ("retry_count" :> "3") @@
            ("duration_ms" :> "5000")),
       SLog("logger", "debug", "Processing request",
            ("request_id" :> "req-789") @@ ("user_agent" :> "Mozilla/5.0...") @@
            ("headers" :> "authorization content-type")),
       SOp("return") >>

\* the program of demo d, given what version.Get() and the loader returned
Program(d, v, cfgp, e) ==
    CASE d = ginDemo              -> ProgramGinDemo(v, e)
      [] d = defaultFieldsDemo    -> ProgramDefaultFieldsDemo(v)
      [] d = fileLoggingDemo      -> ProgramFileLoggingDemo(v)
      [] d = viperConfigDemo      -> ProgramViperConfigDemo(v, cfgp)
      [] d = realWorldDemo        -> ProgramRealWorldDemo(v)
      [] d = initialFieldsGinDemo -> ProgramInitialFieldsGinDemo(v, e)
      [] d = customFieldsDemo     -> ProgramCustomFieldsDemo(v)

\* the options the demo passes to logger.New, by the logger's variable
Options(d, v, e, file, cfgp) ==
    CASE d = ginDemo              -> OptionsGinDemo(v)
      [] d = defaultFieldsDemo    -> OptionsDefaultFieldsDemo(v)
      [] d = fileLoggingDemo      -> OptionsFileLoggingDemo(v)
      [] d = viperConfigDemo      -> OptionsViperConfigDemo(v, file, cfgp)
      [] d = realWorldDemo        -> OptionsRealWorldDemo(v, e)
      [] d = initialFieldsGinDemo -> OptionsInitialFieldsGinDemo(v)
      [] d = customFieldsDemo     -> OptionsCustomFieldsDemo(v, e)

OpsOf(program) == [i \in DOMAIN program |-> program[i].op]

\* the kinds of the steps of each main, in order: they are the same for
\* every build and every configuration
StepsGinDemo              == OpsOf(ProgramGinDemo(MakefileBuild, NoEnviron))
StepsDefaultFieldsDemo    == OpsOf(ProgramDefaultFieldsDemo(MakefileBuild))
StepsFileLoggingDemo      == OpsOf(ProgramFileLoggingDemo(MakefileBuild))
StepsViperConfigDemo      == OpsOf(ProgramViperConfigDemo(MakefileBuild, Nil))
StepsRealWorldDemo        == OpsOf(ProgramRealWorldDemo(MakefileBuild))
StepsInitialFieldsGinDemo == OpsOf(ProgramInitialFieldsGinDemo(MakefileBuild, NoEnviron))
StepsCustomFieldsDemo     == OpsOf(ProgramCustomFieldsDemo(MakefileBuild))

Steps(d) ==
    CASE d = ginDemo              -> StepsGinDemo
      [] d = defaultFieldsDemo    -> StepsDefaultFieldsDemo
      [] d = fileLoggingDemo      -> StepsFileLoggingDemo
      [] d = viperConfigDemo      -> StepsViperConfigDemo
      [] d = realWorldDemo        -> StepsRealWorldDemo
      [] d = initialFieldsGinDemo -> StepsInitialFieldsGinDemo
      [] d = customFieldsDemo     -> StepsCustomFieldsDemo

\* how a process ends: main returns, the Go runtime aborts on a panic (status 2),
\* os.Exit(code), or the logger's Fatalw ends the process
ExitReturn     == [kind |-> "return", code |-> 0]
ExitPanic      == [kind |-> "panic", code |-> 2]
OsExit(c)      == [kind |-> "os.Exit", code |-> c]
ExitFatalw(c)  == [kind |-> "Fatalw", code |-> c]

\* the exit status of Fatalw is the logger library's
FatalwCodes == {1, 2}

\* every demo that panics when logger.New fails, as if it printed and called os.Exit(1)
LoggerFailureAlwaysExits(d) == OsExit(1)

\* the if err != nil after logger.New: the viper demo prints and calls
\* os.Exit(1), every other demo panics
LoggerFailureExit(d) == IF d = viperConfigDemo THEN OsExit(1) ELSE ExitPanic

\* HTTP: a response is the status, the "status" field of the JSON body
\* ("": the body has no such field) and the OTLP headers the body shows
\* (a pointer; nil: the body shows no configuration)
Response(code, bodyStatus) == [status |-> code, body |-> bodyStatus, headers |-> Nil]
NotFound == Response(404, "")

\* the URL paths requested
ReqPaths == {"/", "/health", "/version", "/config", "/error", "/logs",
             "/users/123", "/users/999", "/debug/config"}

\* the route pattern that matches a path
RouteOf(path) == IF path \in {"/users/123", "/users/999"} THEN "/users/:id" ELSE path

Redacted == "***REDACTED***"

\* a sanitizeConfig that returns the configuration as it is
sanitizeConfigNothing(cfg) == cfg

\* sanitizeConfig: a copy whose x-api-key and authorization headers are redacted
sanitizeConfig(cfg) ==
    IF cfg.Logger.OTLP # Nil
    THEN [cfg EXCEPT !.Logger.OTLP =
            Ref([Deref(cfg.Logger.OTLP) EXCEPT !.Headers =
                    [k \in DOMAIN Deref(cfg.Logger.OTLP).Headers |->
                        IF k = "x-api-key" \/ k = "authorization"
                        THEN Redacted
                        ELSE Deref(cfg.Logger.OTLP).Headers[k]]])]
    ELSE cfg

\* a sanitizeConfig that redacts in the map it was given: sanitized := *cfg
\* copies the struct but shares the OTLP struct and its Headers map with cfg
AfterSanitizeShared(cfg) == sanitizeConfig(cfg)

\* what cfg points to after sanitizeConfig(cfg) has returned: the function
\* writes to sanitized, sanitizedHeaders and otlpCopy only, its own copies
AfterSanitize(cfg) == cfg

\* the Config after the handler of a route of the viper demo has run: the
\* handlers read appConfig and logOption, /config passes appConfig to
\* sanitizeConfig
ConfigAfterHandler(path, cfg) ==
    IF path = "/config" THEN AfterSanitize(cfg) ELSE cfg

\* the OTLP headers in the JSON of a *config.Config
HeadersShown(cfg) ==
    IF cfg.Logger.OTLP = Nil THEN Nil ELSE Ref(Deref(cfg.Logger.OTLP).Headers)

\* a /health that reports the service as degraded
HandlerViperDegraded(path, cfg) ==
    CASE path = "/health" -> Response(503, "degraded")
      [] OTHER -> NotFound

\* the handlers of each server, by route
HandlerGinDemo(path) ==
    CASE path = "/"        -> Response(200, "")
      [] path = "/health"  -> Response(200, "healthy")
      [] path = "/version" -> Response(200, "")
      [] OTHER -> NotFound

HandlerInitialFieldsGinDemo(path) ==
    CASE path = "/"        -> Response(200, "")
      [] path = "/health"  -> Response(200, "healthy")
      [] path = "/version" -> Response(200, "")
      [] OTHER -> NotFound

HandlerRealWorldDemo(path) ==
    CASE path = "/"          -> Response(200, "healthy")
      [] path = "/users/123" -> Response(200, "active")
      [] path = "/users/999" -> Response(404, "")
      [] path = "/health"    -> Response(200, "healthy")
      [] OTHER -> NotFound

HandlerFileLoggingDemo(path) ==
    CASE path = "/"       -> Response(200, "")
      [] path = "/health" -> Response(200, "healthy")
      [] path = "/error"  -> Response(500, "")
      [] path = "/logs"   -> Response(200, "")
      [] OTHER -> NotFound

HandlerViperConfigDemo(path, cfg) ==
    CASE path = "/"             -> Response(200, "")
      [] path = "/health"       -> Response(200, "healthy")
      [] path = "/version"      -> Response(200, "")
      [] path = "/config"       ->
            [Response(200, "") EXCEPT !.headers = HeadersShown(sanitizeConfig(cfg))]
      [] path = "/logger/test"  -> Response(200, "")
      [] path = "/debug/config" ->
            [Response(200, "") EXCEPT !.headers = HeadersShown(cfg)]
      [] OTHER -> NotFound

\* a router that registers the debug route in every environment
RoutesViperAlwaysDebug(environment) ==
    {"/", "/health", "/version", "/config", "/logger/test", "/debug/config"}

\* the r.GET calls of the viper demo: /debug/config in development only
RoutesViperConfigDemo(environment) ==
    {"/", "/health", "/version", "/config", "/logger/test"} \cup
    (IF environment = "development" THEN {"/debug/config"} ELSE {})

\* the routes demo d registers
Routes(d, cfgp) ==
    CASE d = ginDemo              -> {"/", "/health", "/version"}
      [] d = initialFieldsGinDemo -> {"/", "/health", "/version"}
      [] d = realWorldDemo        -> {"/", "/users/:id", "/health"}
      [] d = fileLoggingDemo      -> {"/", "/health", "/error", "/logs"}
      [] d = viperConfigDemo      ->
            RoutesViperConfigDemo(IF cfgp = Nil THEN "" ELSE Deref(cfgp).Server.Environment)
      [] OTHER -> {}

\* the handler of demo d answers GET path
Serve(d, cfgp, path) ==
    CASE d = ginDemo              -> HandlerGinDemo(path)
      [] d = initialFieldsGinDemo -> HandlerInitialFieldsGinDemo(path)
      [] d = realWorldDemo        -> HandlerRealWorldDemo(path)
      [] d = fileLoggingDemo      -> HandlerFileLoggingDemo(path)
      [] d = viperConfigDemo      -> HandlerViperConfigDemo(path, Deref(cfgp))

\* the router: the handler of the route that matches, or 404
Dispatch(d, registered, cfgp, path) ==
    IF RouteOf(path) \in registered THEN Serve(d, cfgp, path) ELSE NotFound

\* the log calls of the handlers
HandlerLogsGin(path) ==
    CASE path = "/" ->
            <<SLog("serviceLogger", "info", "Handling root request",
                   ("endpoint" :> "/") @@ ("method" :> "GET"))>>
      [] path = "/health" ->
            <<SLog("serviceLogger", "info", "Health check requested",
                   ("endpoint" :> "/health") @@ ("method" :> "GET"))>>
      [] path = "/version" ->
            <<SLog("serviceLogger", "info", "Version info requested",
                   ("endpoint" :> "/version") @@ ("method" :> "GET"))>>
      [] OTHER -> <<>>

HandlerLogsRealWorld(path) ==
    CASE path = "/" ->
            <<SLog("appLogger", "info", "Homepage accessed",
                   ("user_type" :> "anonymous") @@ ("referrer" :> ""))>>
      [] path = "/users/123" ->
            <<SLog("appLogger", "info", "User lookup started",
                   ("user_id" :> "123") @@ ("operation" :> "get_user") @@
                   ("cache_enabled" :> "true")),
              SLog("appLogger", "info", "User found",
                   ("user_id" :> "123") @@ ("user_status" :> "active") @@
                   ("last_login" :> "2025-09-01T10:30:00Z") @@
                   ("permission_level" :> "standard"))>>
      [] path = "/users/999" ->
            <<SLog("appLogger", "info", "User lookup started",
                   ("user_id" :> "999") @@ ("operation" :> "get_user") @@
                   ("cache_enabled" :> "true")),
              SLog("appLogger", "warn", "User not found",
                   ("user_id" :> "999") @@ ("lookup_duration_ms" :> "10") @@
                   ("searched_indexes" :> "primary email username"))>>
      [] path = "/health" ->
            <<SLog("appLogger", "debug", "Health check performed",
                   ("check_type" :> "http") @@ ("response_time_ms" :> "1") @@
                   ("dependencies" :> "database redis queue"))>>
      [] OTHER -> <<>>

HandlerLogsFileLogging(path) ==
    CASE path = "/" ->
            <<SLog("appLoggerWithContext", "debug", "Handling root request", NoFields)>>
      [] path = "/health" ->
            <<SLog("appLoggerWithContext", "debug", "Health check requested", NoFields)>>
      [] path = "/error" ->
            <<SLog("appLoggerWithContext", "error", "Simulated error endpoint accessed",
                   NoFields)>>
      [] path = "/logs" ->
            <<SLog("appLoggerWithContext", "debug", "Log files listing requested",
                   NoFields)>>
      [] OTHER -> <<>>

HandlerLogsViper(path) ==
    CASE path = "/" ->
            <<SLog("serviceLogger", "info", "Handling root request",
                   ("endpoint" :> "/") @@ ("method" :> "GET"))>>
      [] path = "/health" ->
            <<SLog("serviceLogger", "debug", "Health check requested",
                   "endpoint" :> "/health")>>
      [] path = "/version" ->
            <<SLog("serviceLogger", "info", "Version info requested",
                   ("endpoint" :> "/version") @@ ("method" :> "GET"))>>
      [] path = "/config" ->
            <<SLog("serviceLogger", "info", "Configuration info requested",
                   "endpoint" :> "/config")>>
      [] path = "/debug/config" ->
            <<SLog("serviceLogger", "debug", "Debug config endpoint accessed",
                   "endpoint" :> "/debug/config")>>
      [] OTHER -> <<>>

HandlerLogs(d, path) ==
    CASE d = ginDemo              -> HandlerLogsGin(path)
      [] d = initialFieldsGinDemo -> HandlerLogsGin(path)
      [] d = realWorldDemo        -> HandlerLogsRealWorld(path)
      [] d = fileLoggingDemo      -> HandlerLogsFileLogging(path)
      [] d = viperConfigDemo      -> HandlerLogsViper(path)

RequestFields(path, status) ==
    ("method" :> "GET") @@ ("path" :> path) @@ ("status" :> ToString(status)) @@
    ("client_ip" :> SomeValue) @@ ("user_agent" :> SomeValue)

\* the logger that takes the failure of the server to start
ServerLogger(d) ==
    CASE d = fileLoggingDemo -> "appLoggerWithContext"
      [] d = realWorldDemo   -> "appLogger"
      [] OTHER               -> "serviceLogger"

\* a middleware that writes the access record on the application logger
MiddlewareLogsOnAppLogger(d, path, status) ==
    <<SLog(ServerLogger(d), "info", "HTTP request",
           RequestFields(path, status) @@ ("latency_ms" :> SomeValue))>>

\* the log call of the logging middleware of demo d, made after c.Next()
\* (the two Gin demos use gin.Default's own logger only)
MiddlewareLogs(d, path, status) ==
    CASE d = fileLoggingDemo ->
            <<SLog("accessLoggerWithContext", "info", "HTTP request",
                   RequestFields(path, status) @@ ("latency_ms" :> SomeValue))>>
      [] d = viperConfigDemo ->
            <<SLog("serviceLogger", "info", "HTTP request processed",
                   RequestFields(path, status))>>
      [] d = realWorldDemo ->
            <<SLog("appLogger", "info", "HTTP request",
                   RequestFields(path, status) @@ ("latency_ms" :> SomeValue))>>
      [] OTHER -> <<>>

\* the test requests of the file logging demo's own client, and what it
\* logs before and after each
TestEndpoints == {"/", "/health", "/logs", "/error"}

\* testEndpoints: the order in which the client asks for them
testEndpoints == <<"/", "/health", "/logs", "/error">>

ClientLogsBefore(d, path) ==
    IF d = fileLoggingDemo /\ path \in TestEndpoints
    THEN <<SLog("appLoggerWithContext", "debug", "Making test request",
                ("endpoint" :> path) @@ ("request" :> SomeValue))>>
    ELSE <<>>

ClientLogsAfter(d, path, answered, status) ==
    IF d = fileLoggingDemo /\ path \in TestEndpoints
    THEN IF answered
         THEN <<SLog("appLoggerWithContext", "info", "Test request completed",
                     ("endpoint" :> path) @@ ("status" :> ToString(status)))>>
         ELSE <<SLog("appLoggerWithContext", "warn", "Test request failed",
                     ("endpoint" :> path) @@ ("error" :> "connection refused"))>>
    ELSE <<>>

\* the records of a sequence of log calls on the loggers lgs
RECURSIVE EmitAll(_, _)
EmitAll(calls, lgs) ==
    IF calls = <<>> THEN <<>>
    ELSE Emit(calls[1].lg, lgs[calls[1].lg], calls[1].level, calls[1].msg, calls[1].kv)
         \o EmitAll(Tail(calls), lgs)

\* what the client of a GET gets: the server's answer, or no answer
Answered(path, resp) == [path |-> path, answered |-> TRUE,
                         status |-> resp.status, body |-> resp.body,
                         headers |-> resp.headers]
Refused(path) == [path |-> path, answered |-> FALSE, status |-> 0, body |-> "",
                  headers |-> Nil]

----------------------------------------------------------------------------
(* The loader and its surroundings as a state machine *)

surroundings == <<yaml, yamlParses, fs, environ, appEnv, args>>
outcome == <<call, configFile, loadedFrom, config, logOption, err, manager>>

NoOutcome ==
    /\ call = "none"
    /\ configFile = <<>>
    /\ loadedFrom = <<>>
    /\ config = Nil
    /\ logOption = Nil
    /\ err = NoErr
    /\ manager = Nil

\* the process has not ended and is at step s
At(s) == exit = Nil /\ pc <= Len(Steps(demo)) /\ Steps(demo)[pc] = s

\* the process has not ended and is through its steps: it serves until it is stopped
Serving == exit = Nil /\ pc > Len(Steps(demo))

NotStarted ==
    /\ pc = 1
    /\ loggerErr = FALSE
    /\ listening = FALSE
    /\ exit = Nil
    /\ response = Nil
    /\ loggers = [lg \in {} |-> Nil]
    /\ records = <<>>
    /\ routes = {}
    /\ printed = FALSE
    /\ requests = 0
    /\ served = 0
    /\ tested = 0
    /\ addr = ""
    /\ health = Nil

InitLoad ==
    /\ demo = viperConfigDemo
    /\ versionInfo = MakefileBuild
    /\ NotStarted
    /\ yaml \in YamlPresets
    /\ yamlParses = TRUE
    /\ fs = RepoFiles
    /\ environ = [n \in {} |-> ""]
    /\ appEnv = <<>>
    /\ args = <<>>
    /\ edits = 0
    /\ NoOutcome

\* the surroundings are arranged before the program starts
CanEdit == demo = viperConfigDemo /\ call = "none" /\ pc = 1 /\ edits < MaxEdits

\* the file is written with key k set to v
EditYaml(k, v) ==
    /\ CanEdit
    /\ yaml' = (k :> v) @@ yaml
    /\ edits' = edits + 1
    /\ UNCHANGED <<yamlParses, fs, environ, appEnv, args, outcome, demoVars>>

\* the file is written without key k
DeleteYamlKey(k) ==
    /\ CanEdit
    /\ k \in DOMAIN yaml
    /\ yaml' = [j \in DOMAIN yaml \ {k} |-> yaml[j]]
    /\ edits' = edits + 1
    /\ UNCHANGED <<yamlParses, fs, environ, appEnv, args, outcome, demoVars>>

\* the file is written with a syntax error
BreakYaml ==
    /\ CanEdit
    /\ yamlParses
    /\ yamlParses' = FALSE
    /\ edits' = edits + 1
    /\ UNCHANGED <<yaml, fs, environ, appEnv, args, outcome, demoVars>>

\* export name=v
Setenv(name, v) ==
    /\ CanEdit
    /\ environ' = (name :> v) @@ environ
    /\ edits' = edits + 1
    /\ UNCHANGED <<yaml, yamlParses, fs, appEnv, args, outcome, demoVars>>

\* export APP_ENV=v
SetAppEnv(v) ==
    /\ CanEdit
    /\ appEnv' = v
    /\ edits' = edits + 1
    /\ UNCHANGED <<yaml, yamlParses, fs, environ, args, outcome, demoVars>>

\* the command line of the demo
SetArgs(a) ==
    /\ CanEdit
    /\ args = <<>>
    /\ a # <<>>
    /\ args' = a
    /\ edits' = edits + 1
    /\ UNCHANGED <<yaml, yamlParses, fs, environ, appEnv, outcome, demoVars>>

\* the configuration file is copied to p, or removed from p
CreateFile(p) ==
    /\ CanEdit
    /\ p \notin fs
    /\ fs' = fs \cup {p}
    /\ edits' = edits + 1
    /\ UNCHANGED <<yaml, yamlParses, environ, appEnv, args, outcome, demoVars>>

RemoveFile(p) ==
    /\ CanEdit
    /\ p \in fs
    /\ fs' = fs \ {p}
    /\ edits' = edits + 1
    /\ UNCHANGED <<yaml, yamlParses, environ, appEnv, args, outcome, demoVars>>

\* a main that goes on after a failed load
LoadFailureIgnored(e) == Nil

\* main, lines 42-47: if err != nil, the message is printed and os.Exit(1) called
LoadFailureExit(e) == IF e # NoErr THEN Ref(OsExit(1)) ELSE Nil

\* main, lines 22-47: the file is chosen and loaded; a failure is printed
\* and the process ends with os.Exit(1)
RunMain ==
    /\ At("load")
    /\ call = "none"
    /\ \E durationField \in BOOLEAN :
       \E r \in {LoadConfigFromFile(mainConfigFile(args, appEnv), durationField)} :
          /\ call' = "main"
          /\ configFile' = mainConfigFile(args, appEnv)
          /\ loadedFrom' = r.loadedFrom
          /\ config' = r.config
          /\ logOption' = r.logOption
          /\ err' = r.err
          /\ exit' = LoadFailureExit(r.err)
          /\ printed' = (r.err # NoErr)
    /\ pc' = pc + 1
    /\ UNCHANGED <<surroundings, edits, manager, demo, loggerErr, listening, response,
                   versionInfo, loggers, records, routes, requests, served, tested, addr, health>>

\* config.LoadConfigFromEnv()
CallLoadConfigFromEnv ==
    /\ call = "none"
    /\ \E durationField \in BOOLEAN :
       \E r \in {LoadConfigFromEnv(durationField)} :
          /\ call' = "LoadConfigFromEnv"
          /\ loadedFrom' = r.loadedFrom
          /\ config' = r.config
          /\ logOption' = r.logOption
          /\ err' = r.err
    /\ UNCHANGED <<surroundings, edits, configFile, manager, demoVars>>

\* no LoadConfig was called on the manager
NotCalled == "not called"

\* NewConfigManager: config: &Config{}. loadErr is what LoadConfig returned
\* on this manager
NewConfigManager == [config |-> Ref(ZeroConfig), loadErr |-> NotCalled]

\* cm := config.NewConfigManager()
CallNewConfigManager ==
    /\ call = "none"
    /\ manager = Nil
    /\ manager' = Ref(NewConfigManager)
    /\ UNCHANGED <<surroundings, edits, call, configFile, loadedFrom, config,
                   logOption, err, demoVars>>

\* cm.LoadConfig("", "") on a manager that was made before, or
\* NewConfigManager().LoadConfig("", ""): Unmarshal and the validation work
\* on cm.config, which keeps what they left in it
CallLoadConfig ==
    /\ call = "none"
    /\ \E durationField \in BOOLEAN :
       \E r \in {LoadConfig(<<>>, <<>>, durationField)} :
          /\ call' = "LoadConfig"
          /\ loadedFrom' = r.loadedFrom
          /\ config' = r.config
          /\ err' = r.err
          /\ manager' = Ref([config |-> r.cmConfig, loadErr |-> r.err])
    /\ UNCHANGED <<surroundings, edits, configFile, logOption, demoVars>>

\* cm.ToLoggerOption() on the manager
CallToLoggerOption ==
    /\ manager # Nil
    /\ call \in {"none", "LoadConfig"}
    /\ \E o \in {ToLoggerOption(Deref(manager).config)} :
          /\ call' = "ToLoggerOption"
          /\ logOption' = o.logOption
          /\ err' = o.err
    /\ UNCHANGED <<surroundings, edits, configFile, loadedFrom, config, manager,
                   demoVars>>

\* the content of the file and the environment vary; the files are the repository's
NextLoad ==
    \/ \E k \in Keys : \E v \in YamlValues[k] : EditYaml(k, v)
    \/ \E k \in Keys : DeleteYamlKey(k)
    \/ BreakYaml
    \/ \E n \in EnvNames : \E v \in EnvValues[n] : Setenv(n, v)
    \/ \E p \in RepoFiles : RemoveFile(p)
    \/ RunMain
    \/ CallLoadConfig

SpecLoad == InitLoad /\ [][NextLoad]_vars

\* the file's place, the command line and APP_ENV vary; the content is app.yaml's
InitSelect == InitLoad /\ yaml = AppYaml

NextSelect ==
    \/ \E v \in AppEnvValues : SetAppEnv(v)
    \/ \E a \in ArgValues : SetArgs(a)
    \/ \E p \in PathUniverse : CreateFile(p)
    \/ \E p \in PathUniverse : RemoveFile(p)
    \/ RunMain
    \/ CallLoadConfigFromEnv
    \/ CallLoadConfig

SpecSelect == InitSelect /\ [][NextSelect]_vars

\* a caller that uses a ConfigManager itself: it makes one, calls LoadConfig
\* on it or not, and asks it for the logger option
NextManager ==
    \/ \E k \in Keys : \E v \in YamlValues[k] : EditYaml(k, v)
    \/ BreakYaml
    \/ \E p \in RepoFiles : RemoveFile(p)
    \/ CallNewConfigManager
    \/ CallLoadConfig
    \/ CallToLoggerOption

SpecManager == InitLoad /\ [][NextManager]_vars

----------------------------------------------------------------------------
(* The demos as processes *)

\* the step the process is at
Step == Program(demo, versionInfo, config, environ)[pc]

\* the demo starts an HTTP server
HasServer(d) == \E i \in DOMAIN Steps(d) : Steps(d)[i] = "listen"

\* os.MkdirAll("logs", 0755) of the file logging demo; a failure panics
MkdirLogs(ok) ==
    /\ At("mkdir")
    /\ IF ok THEN pc' = pc + 1 /\ exit' = exit
             ELSE pc' = pc /\ exit' = Ref(ExitPanic)
    /\ UNCHANGED <<loadVars, demo, loggerErr, listening, response,
                   versionInfo, loggers, records, routes, printed, requests, served, tested, addr, health>>

\* opt.WithInitialFields(fields).AddInitialField(k, v)...: the option's
\* InitialFields are set, in the option the pointer refers to
WithInitialFields(opt, fields) == [opt EXCEPT !.InitialFields = Ref(fields)]

\* the Config after a write through the pointer ToLoggerOption returned:
\* that pointer is &cm.config.Logger and the Config returned with it is
\* cm.config, so the option written is the Config's Logger field
WrittenThrough(cfg, opt) == [cfg EXCEPT !.Logger = opt]

\* main adds the service and build information to the option it was given
AddInitialFields ==
    /\ At("fields")
    /\ \E opt \in {WithInitialFields(Deref(logOption),
                        ViperInitialFields(versionInfo, configFile, Deref(config)))} :
          /\ logOption' = Ref(opt)
          /\ config' = Ref(WrittenThrough(Deref(config), opt))
    /\ pc' = pc + 1
    /\ UNCHANGED <<surroundings, edits, call, configFile, loadedFrom, err, manager,
                   demo, loggerErr, listening, exit, response,
                   versionInfo, loggers, records, routes, printed,
                   requests, served, tested, addr, health>>

\* logger, _ := logger.New(opt): the error is dropped and main goes on
NewErrorDropped(ok) == FALSE

\* if err != nil after logger.New: the process is ended
NewErrorFatal(ok) == ~ok

\* logger.New and the if err != nil that follows it
NewLogger(ok) ==
    /\ At("logger")
    /\ loggerErr' = ~ok
    /\ IF ~NewErrorFatal(ok)
       THEN /\ pc' = pc + 1
            /\ exit' = exit
            /\ printed' = printed
            /\ loggers' =
                (Step.lg :> New(Options(demo, versionInfo, environ,
                                        configFile, config)[Step.lg])) @@ loggers
       ELSE /\ pc' = pc
            /\ exit' = Ref(LoggerFailureExit(demo))
            /\ printed' = (demo = viperConfigDemo)
            /\ loggers' = loggers
    /\ UNCHANGED <<loadVars, demo, listening, response,
                   versionInfo, records, routes, requests, served, tested, addr, health>>

\* versionInfo.GitCommit[:8]: a slice out of range panics
ShortCommit ==
    /\ At("commit")
    /\ IF Len(versionInfo.GitCommit) >= 8 THEN pc' = pc + 1 /\ exit' = exit
                                          ELSE pc' = pc /\ exit' = Ref(ExitPanic)
    /\ UNCHANGED <<loadVars, demo, loggerErr, listening, response,
                   versionInfo, loggers, records, routes, printed, requests, served, tested, addr, health>>

\* lg := from.With(k1, v1, ...)
WithFields ==
    /\ At("with")
    /\ loggers' = (Step.lg :> With(loggers[Step.from], Step.kv)) @@ loggers
    /\ pc' = pc + 1
    /\ UNCHANGED <<loadVars, demo, loggerErr, listening, exit, response,
                   versionInfo, records, routes, printed, requests, served, tested, addr, health>>

\* lg.Info(msg), lg.Infow(msg, k1, v1, ...) and the like, in main
LogCall ==
    /\ At("log")
    /\ records' = records \o EmitAll(<<Step>>, loggers)
    /\ pc' = pc + 1
    /\ UNCHANGED <<loadVars, demo, loggerErr, listening, exit, response,
                   versionInfo, loggers, routes, printed, requests, served, tested, addr, health>>

\* the router is made and its routes are registered
RegisterRoutes ==
    /\ At("routes")
    /\ routes' = Routes(demo, config)
    /\ pc' = pc + 1
    /\ UNCHANGED <<loadVars, demo, loggerErr, listening, exit, response,
                   versionInfo, loggers, records, printed, requests, served, tested, addr, health>>

\* the address each server is started on
ListenAddr(d, e, cfgp) ==
    CASE d \in {ginDemo, initialFieldsGinDemo} -> ginPort(e)
      [] d = realWorldDemo   -> ":" \o getEnvOrDefault(e, "PORT", "8080")
      [] d = fileLoggingDemo -> ":8084"
      [] d = viperConfigDemo -> ":" \o ToString(Deref(cfgp).Server.Port)
      [] OTHER -> ""

\* r.Run(port), or srv.ListenAndServe() in the file logging demo's goroutine:
\* the server listens; a failure goes to Fatalw, in the file logging demo to Errorw
Listen(ok) ==
    /\ At("listen")
    /\ IF ok
       THEN pc' = pc + 1 /\ listening' = TRUE /\ exit' = exit /\ records' = records
       ELSE IF demo = fileLoggingDemo
       THEN /\ pc' = pc + 1 /\ listening' = FALSE /\ exit' = exit
            /\ records' = records \o
                 EmitAll(<<SLog(ServerLogger(demo), "error", "Server failed to start",
                                "error" :> "listen failed")>>, loggers)
       ELSE /\ pc' = pc /\ listening' = FALSE
            /\ \E c \in FatalwCodes : exit' = Ref(ExitFatalw(c))
            /\ records' = records \o
                 EmitAll(<<SLog(ServerLogger(demo), "fatal", "Failed to start server",
                                "error" :> "listen failed")>>, loggers)
    /\ addr' = IF ok THEN ListenAddr(demo, environ, config) ELSE addr
    /\ UNCHANGED <<loadVars, demo, loggerErr, response,
                   versionInfo, loggers, routes, printed, requests, served, tested,
                   health>>

\* the demos without a server: main returns after its log lines
MainReturns ==
    /\ At("return")
    /\ exit' = Ref(ExitReturn)
    /\ UNCHANGED <<loadVars, demo, pc, loggerErr, listening, response,
                   versionInfo, loggers, records, routes, printed, requests, served, tested, addr, health>>

\* srv.Shutdown(ctx) of the file logging demo, after the test requests, with
\* its deadline of five seconds: it returns nil or the context's error, the
\* outcome is logged and main returns
Shutdown(ok) ==
    /\ Serving
    /\ demo = fileLoggingDemo
    /\ tested = Len(testEndpoints)
    /\ listening' = FALSE
    /\ exit' = Ref(ExitReturn)
    /\ records' = records \o
         EmitAll(<<IF ok THEN SLog("appLoggerWithContext", "info",
                                   "Server shutdown completed", NoFields)
                         ELSE SLog("appLoggerWithContext", "error",
                                   "Server shutdown failed",
                                   "error" :> "context deadline exceeded")>>, loggers)
    /\ UNCHANGED <<loadVars, demo, pc, loggerErr, response,
                   versionInfo, loggers, routes, printed, requests, served, tested, addr, health>>

\* a middleware that logs before it calls c.Next(): the record precedes the
\* handler's and carries the status the writer starts with
ServerRecordsLoggedFirst(d, lgs, path, routed, resp) ==
    EmitAll(MiddlewareLogs(d, path, 200), lgs) \o
    EmitAll(IF routed THEN HandlerLogs(d, path) ELSE <<>>, lgs)

\* the records the server leaves for one request: the handler's, then the
\* middleware's, written after the handler has returned
ServerRecords(d, lgs, path, routed, resp) ==
    EmitAll(IF routed THEN HandlerLogs(d, path) ELSE <<>>, lgs) \o
    EmitAll(MiddlewareLogs(d, path, resp.status), lgs)

\* the records one test request of the file logging demo leaves: the
\* client's, around those of the server when it answered
RequestRecords(d, lgs, path, answered, routed, resp) ==
    EmitAll(ClientLogsBefore(d, path), lgs) \o
    (IF answered THEN ServerRecords(d, lgs, path, routed, resp) ELSE <<>>) \o
    EmitAll(ClientLogsAfter(d, path, answered, resp.status), lgs)

\* a client without Timeout: a request nothing answers never returns
ClientGetHangs(up) == FALSE

\* client.Get(endpoint) of a client with Timeout 2s returns an error when
\* nothing answers at the address
ClientGetFails(up) == ~up

\* the next test request of the file logging demo, to a server that does not
\* listen: client.Get returns an error, which is logged, and the loop goes on
TestRequestFails ==
    /\ Serving
    /\ demo = fileLoggingDemo
    /\ tested < Len(testEndpoints)
    /\ ClientGetFails(listening)
    /\ records' = records \o
            RequestRecords(demo, loggers, testEndpoints[tested + 1],
                           FALSE, FALSE, NotFound)
    /\ tested' = tested + 1
    /\ UNCHANGED <<loadVars, demo, pc, loggerErr, listening, exit, response,
                   versionInfo, loggers, routes, printed, requests, served,
                   addr, health>>

\* the next test request of the file logging demo, answered by its server
TestRequest ==
    /\ Serving
    /\ demo = fileLoggingDemo
    /\ tested < Len(testEndpoints)
    /\ listening
    /\ \E path \in {testEndpoints[tested + 1]} :
       \E resp \in {Dispatch(demo, routes, config, path)} :
          /\ response' = Ref(Answered(path, resp))
          /\ records' = records \o
                RequestRecords(demo, loggers, path, TRUE,
                               RouteOf(path) \in routes, resp)
    /\ tested' = tested + 1
    /\ served' = served + 1
    /\ UNCHANGED <<loadVars, demo, pc, loggerErr, listening, exit,
                   versionInfo, loggers, routes, printed, requests, addr, health>>

\* a client sends GET path to the demo: to its server, or, the demo having
\* none, to a process that does not answer. The server of the file logging
\* demo, up for the time of its own test requests, is asked by those only
Get(path) ==
    /\ exit = Nil
    /\ requests < MaxRequests
    /\ demo # fileLoggingDemo
    /\ listening \/ ~HasServer(demo)
    /\ \E resp \in {IF listening THEN Dispatch(demo, routes, config, path)
                                 ELSE NotFound} :
          /\ response' = Ref(IF listening THEN Answered(path, resp) ELSE Refused(path))
          /\ records' = records \o
                (IF listening
                 THEN ServerRecords(demo, loggers, path,
                                    RouteOf(path) \in routes, resp)
                 ELSE <<>>)
    /\ IF listening /\ demo = viperConfigDemo /\ RouteOf(path) \in routes
       THEN /\ config' = Ref(ConfigAfterHandler(path, Deref(config)))
            /\ logOption' = Ref(ConfigAfterHandler(path, Deref(config)).Logger)
       ELSE UNCHANGED <<config, logOption>>
    /\ requests' = requests + 1
    /\ served' = IF listening THEN served + 1 ELSE served
    /\ UNCHANGED <<surroundings, edits, call, configFile, loadedFrom, err, manager,
                   demo, pc, loggerErr, listening, exit,
                   versionInfo, loggers, routes, printed, tested, addr, health>>

\* Dockerfile: EXPOSE 8081
ExposedPort == "8081"

\* Dockerfile: HEALTHCHECK CMD wget --spider http://localhost:8081/health || exit 1
HealthcheckPort == "8081"
HealthcheckPath == "/health"

\* the container's health check: wget succeeds when a server listens at the
\* port it asks and answers the path with a status of success. up: whether
\* the demo's server was listening when the check ran
Healthcheck ==
    /\ exit = Nil
    /\ health' = Ref([up |-> listening,
                      ok |-> /\ listening
                             /\ addr = ":" \o HealthcheckPort
                             /\ Dispatch(demo, routes, config, HealthcheckPath).status = 200])
    /\ UNCHANGED <<loadVars, demo, pc, loggerErr, listening, exit, response,
                   versionInfo, loggers, records, routes, printed, requests, served,
                   tested, addr>>

\* the values of server.environment, of logger.level and of
\* logger.otlp.headers a file can have
DemoEnvironments == {"production", "Development"}
DemoLevels == {"error", "trace"}
DemoHeaders ==
    { ("Authorization" :> "Bearer s3cret") @@ ("x-tenant" :> "acme"),
      ("X-API-Key" :> "k-123") @@ ("authorization" :> "Bearer s3cret") }

InitDemo ==
    /\ demo \in Demos
    /\ versionInfo \in VersionInfos
    /\ NotStarted
    /\ yaml \in YamlPresets
    /\ yamlParses = TRUE
    /\ fs = RepoFiles
    /\ environ = [n \in {} |-> ""]
    /\ appEnv = <<>>
    /\ args = <<>>
    /\ edits = 0
    /\ NoOutcome

NextDemo ==
    \/ BreakYaml
    \/ \E p \in RepoFiles : RemoveFile(p)
    \/ \E v \in DemoEnvironments : EditYaml(kEnvironment, v)
    \/ \E v \in DemoLevels : EditYaml(kLevel, v)
    \/ \E h \in DemoHeaders : EditYaml(kOtlpHeaders, h)
    \/ RunMain
    \/ AddInitialFields
    \/ \E ok \in BOOLEAN : MkdirLogs(ok)
    \/ \E ok \in BOOLEAN : NewLogger(ok)
    \/ ShortCommit
    \/ WithFields
    \/ LogCall
    \/ RegisterRoutes
    \/ \E ok \in BOOLEAN : Listen(ok)
    \/ MainReturns
    \/ \E ok \in BOOLEAN : Shutdown(ok)
    \/ \E path \in ReqPaths : Get(path)
    \/ TestRequest
    \/ TestRequestFails

SpecDemo == InitDemo /\ [][NextDemo]_vars

\* the environments a container of the image is run in: PORT not set, as
\* the image leaves it, or given with docker run -e
ImageEnvironments ==
    { NoEnviron, "PORT" :> "", "PORT" :> ExposedPort, "PORT" :> "9090" }

\* the Docker image: its binary is gin-demo, its CMD starts it
InitImage ==
    /\ demo = ginDemo
    /\ versionInfo \in VersionInfos
    /\ NotStarted
    /\ yaml = AppYaml
    /\ yamlParses = TRUE
    /\ fs = {}
    /\ environ \in ImageEnvironments
    /\ appEnv = <<>>
    /\ args = <<>>
    /\ edits = 0
    /\ NoOutcome

NextImage ==
    \/ \E ok \in BOOLEAN : NewLogger(ok)
    \/ ShortCommit
    \/ WithFields
    \/ LogCall
    \/ RegisterRoutes
    \/ \E ok \in BOOLEAN : Listen(ok)
    \/ Healthcheck
    \/ \E path \in ReqPaths : Get(path)

SpecImage == InitImage /\ [][NextImage]_vars

\* the file logging demo alone, as a process that keeps taking its steps:
\* every call it waits for is bounded (time.Sleep, the client's Timeout of
\* two seconds, the five seconds of the context given to srv.Shutdown)
InitWebServer ==
    /\ demo = fileLoggingDemo
    /\ versionInfo \in VersionInfos
    /\ NotStarted
    /\ yaml = AppYaml
    /\ yamlParses = TRUE
    /\ fs = RepoFiles
    /\ environ = [n \in {} |-> ""]
    /\ appEnv = <<>>
    /\ args = <<>>
    /\ edits = 0
    /\ NoOutcome

\* the steps of the process itself
ProcessWebServer ==
    \/ \E ok \in BOOLEAN : MkdirLogs(ok)
    \/ \E ok \in BOOLEAN : NewLogger(ok)
    \/ WithFields
    \/ LogCall
    \/ RegisterRoutes
    \/ \E ok \in BOOLEAN : Listen(ok)
    \/ TestRequest
    \/ TestRequestFails
    \/ \E ok \in BOOLEAN : Shutdown(ok)

SpecWebServer ==
    InitWebServer /\ [][ProcessWebServer]_vars /\ WF_vars(ProcessWebServer)

----------------------------------------------------------------------------
(* Vocabulary of the properties *)

Ran == call # "none"
Loaded == Ran /\ err = NoErr

errReadMissing  == "failed to read config file: config file not found"
errReadParse    == "failed to read config file: while parsing config"
errUnmarshal    == "failed to unmarshal config: decoding failed"
errInvalidPort   == "config validation failed: invalid server port"
errInvalidEngine == "config validation failed: invalid logger engine"
errInvalidLevel  == "config validation failed: invalid logger level"
errInvalidFormat == "config validation failed: invalid logger format"

\* a variable is set to a non-empty value
EnvSet(name) == name \in DOMAIN environ /\ environ[name] # ""

\* the OTLP fields of a loaded configuration ("" when there is no OTLP section)
OtlpEndpointOf(c) == IF c.Logger.OTLP = Nil THEN "" ELSE Deref(c.Logger.OTLP).Endpoint
OtlpProtocolOf(c) == IF c.Logger.OTLP = Nil THEN "" ELSE Deref(c.Logger.OTLP).Protocol
OtlpEnabledOf(c)  == IF c.Logger.OTLP = Nil THEN Nil ELSE Deref(c.Logger.OTLP).Enabled

\* the value the file and the environment give a logger field, before defaults:
\* the variable when set, else the file's value, else nothing
Given(key, name) ==
    IF EnvSet(name) THEN Ref(environ[name])
    ELSE IF key \in DOMAIN yaml THEN Ref(yaml[key])
    ELSE Nil

\* the port the file and the environment give: the variable's number when
\* set (Nil when it is no number), else the file's, else the default 8080
GivenPort ==
    IF EnvSet("APP_SERVER_PORT")
        THEN (CASE environ["APP_SERVER_PORT"] = "9000"  -> Ref(9000)
                [] environ["APP_SERVER_PORT"] = "0"     -> Ref(0)
                [] environ["APP_SERVER_PORT"] = "70000" -> Ref(70000)
                [] OTHER -> Nil)
    ELSE IF kPort \in DOMAIN yaml THEN Ref(yaml[kPort])
    ELSE Ref(8080)

----------------------------------------------------------------------------
(* C1: a configuration file that omits logger.engine, logger.level or
   logger.format fails validation: loading it returns a non-nil error.
   This is the claim as stated; the code gives an omitted field its default. *)
C1_OmittedLoggerFieldFails ==
    (Ran /\ (kEngine \notin DOMAIN yaml \/ kLevel \notin DOMAIN yaml
             \/ kFormat \notin DOMAIN yaml))
        => err # NoErr

(* C1, amended: a logger field (engine, level, format) that the file omits
   and whose APP_ variable is not set is loaded as its default (slog, info,
   json), and validation never fails on account of that field. *)
C1_OmittedLoggerFieldDefaulted ==
    Ran =>
      /\ (kEngine \notin DOMAIN yaml /\ ~EnvSet("APP_LOGGER_ENGINE"))
            => /\ err # errInvalidEngine
               /\ err = NoErr => Deref(config).Logger.Engine = "slog"
      /\ (kLevel \notin DOMAIN yaml /\ ~EnvSet("APP_LOGGER_LEVEL"))
            => /\ err # errInvalidLevel
               /\ err = NoErr => Deref(config).Logger.Level = "info"
      /\ (kFormat \notin DOMAIN yaml /\ ~EnvSet("APP_LOGGER_FORMAT"))
            => /\ err # errInvalidFormat
               /\ err = NoErr => Deref(config).Logger.Format = "json"

\* a file without engine, level and format was loaded
C1_Witness ==
    /\ Loaded
    /\ {kEngine, kLevel, kFormat} \cap DOMAIN yaml = {}
    /\ Deref(config).Logger.Engine = "slog"
    /\ Deref(config).Logger.Level = "info"
    /\ Deref(config).Logger.Format = "json"

(* C2: loading succeeds only if the merged logger.engine is exactly zap or
   slog, logger.level exactly one of debug, info, warn, error, fatal, and
   logger.format exactly json or console; any other value, also one that
   differs in letter case only, is an error, and the loaded value is the
   given one, never a coerced one. *)
C2_EnumsValidatedNotCoerced ==
    Loaded =>
      /\ Deref(config).Logger.Engine \in {"zap", "slog"}
      /\ Deref(config).Logger.Level \in {"debug", "info", "warn", "error", "fatal"}
      /\ Deref(config).Logger.Format \in {"json", "console"}
      /\ Given(kEngine, "APP_LOGGER_ENGINE") # Nil
            => Deref(config).Logger.Engine = Deref(Given(kEngine, "APP_LOGGER_ENGINE"))
      /\ Given(kLevel, "APP_LOGGER_LEVEL") # Nil
            => Deref(config).Logger.Level = Deref(Given(kLevel, "APP_LOGGER_LEVEL"))
      /\ Given(kFormat, "APP_LOGGER_FORMAT") # Nil
            => Deref(config).Logger.Format = Deref(Given(kFormat, "APP_LOGGER_FORMAT"))

\* an engine that differs from a valid one in letter case only was rejected
C2_Witness ==
    /\ call = "LoadConfig"
    /\ Given(kEngine, "APP_LOGGER_ENGINE") \in {Ref("ZAP"), Ref("Slog")}
    /\ err = errInvalidEngine
    /\ config = Nil

(* C3: loading succeeds only if the merged server.port is between 1 and
   65535; a port of 0, a negative port or a port above 65535 makes loading
   return an "invalid server port" error (once the file was read and decoded). *)
C3_PortInRange ==
    Ran =>
      /\ err = NoErr =>
            /\ Deref(config).Server.Port >= 1
            /\ Deref(config).Server.Port <= 65535
      /\ (/\ err \notin {errReadMissing, errReadParse, errUnmarshal}
          /\ GivenPort # Nil
          /\ (Deref(GivenPort) < 1 \/ Deref(GivenPort) > 65535))
            => err = errInvalidPort

\* ports 0, -1 and 65536 were rejected, and so was 70000 from the environment
C3_Witness ==
    /\ Ran
    /\ GivenPort \in {Ref(0), Ref(-1), Ref(65536), Ref(70000)}
    /\ err = errInvalidPort

(* C4: with APP_SERVER_PORT=9000 set, the loaded configuration's server
   port is 9000 whatever port the file holds, also when it holds none, and
   also when the file's own port would not pass validation. *)
C4_EnvPortOverridesFile ==
    (Ran /\ "APP_SERVER_PORT" \in DOMAIN environ /\ environ["APP_SERVER_PORT"] = "9000")
        => /\ err # errInvalidPort
           /\ err = NoErr => Deref(config).Server.Port = 9000

\* the file holds another port, an invalid one or none, and 9000 was loaded
C4_Witness ==
    /\ Loaded
    /\ "APP_SERVER_PORT" \in DOMAIN environ /\ environ["APP_SERVER_PORT"] = "9000"
    /\ (kPort \notin DOMAIN yaml \/ yaml[kPort] \in {0, 8083, 65536})
    /\ Deref(config).Server.Port = 9000

(* C5: for every configuration key, also one without a built-in default
   such as logger.otlp.enabled or logger.otlp.endpoint, setting the variable
   APP_<KEY with dots as underscores, upper-cased> makes the loaded
   configuration hold the variable's value for that key, whatever the file
   and the defaults say. This is the claim as stated; the code ignores the
   variable of a key that neither the file nor the defaults name. *)
C5_EnvOverridesEveryKey ==
    Loaded =>
      /\ EnvSet("APP_LOGGER_ENGINE")
            => Deref(config).Logger.Engine = environ["APP_LOGGER_ENGINE"]
      /\ EnvSet("APP_LOGGER_LEVEL")
            => Deref(config).Logger.Level = environ["APP_LOGGER_LEVEL"]
      /\ EnvSet("APP_LOGGER_FORMAT")
            => Deref(config).Logger.Format = environ["APP_LOGGER_FORMAT"]
      /\ EnvSet("APP_SERVER_PORT")
            => Ref(Deref(config).Server.Port) = GivenPort
      /\ EnvSet("APP_LOGGER_OTLP_ENDPOINT")
            => OtlpEndpointOf(Deref(config)) = environ["APP_LOGGER_OTLP_ENDPOINT"]
      /\ (EnvSet("APP_LOGGER_OTLP_ENABLED") /\ environ["APP_LOGGER_OTLP_ENABLED"] = "true")
            => OtlpEnabledOf(Deref(config)) = Ref(TRUE)

\* the logger fields and the port the run ends up with, defaults included
EffectiveEngine == IF Given(kEngine, "APP_LOGGER_ENGINE") # Nil
                   THEN Deref(Given(kEngine, "APP_LOGGER_ENGINE")) ELSE "slog"
EffectiveLevel  == IF Given(kLevel, "APP_LOGGER_LEVEL") # Nil
                   THEN Deref(Given(kLevel, "APP_LOGGER_LEVEL")) ELSE "info"
EffectiveFormat == IF Given(kFormat, "APP_LOGGER_FORMAT") # Nil
                   THEN Deref(Given(kFormat, "APP_LOGGER_FORMAT")) ELSE "json"

\* no app.yaml in any directory of the search path
AppYamlMissing ==
    fs \cap { PathJoin(dirConfig, <<"app", ".yaml">>), <<"app", ".yaml">>,
              PathJoin(dirEtcApp, <<"app", ".yaml">>) } = {}

(* C6: LoadConfigFromFile has exactly two outcomes: a configuration and a
   logger option with a nil error, or neither with a non-nil error; it
   takes the error outcome whenever the file cannot be read, cannot be
   parsed or unmarshalled, or fails validation. *)
C6_TwoOutcomes ==
    call = "main" =>
      /\ \/ config # Nil /\ logOption # Nil /\ err = NoErr
         \/ config = Nil /\ logOption = Nil /\ err # NoErr
      /\ (configFile = <<"app", ".yaml">> /\ AppYamlMissing) => err # NoErr
      /\ ~yamlParses => err # NoErr
      /\ GivenPort = Nil => err # NoErr
      /\ (GivenPort # Nil /\ Deref(GivenPort) \notin 1..65535) => err # NoErr
      /\ EffectiveEngine \notin {"zap", "slog"} => err # NoErr
      /\ EffectiveLevel \notin {"debug", "info", "warn", "error", "fatal"} => err # NoErr
      /\ EffectiveFormat \notin {"json", "console"} => err # NoErr

\* LoadConfigFromFile failed on a decoded configuration that does not pass validation
C6_Witness ==
    /\ call = "main"
    /\ yamlParses /\ ~AppYamlMissing /\ GivenPort # Nil
    /\ EffectiveFormat = "JSON"
    /\ config = Nil /\ logOption = Nil /\ err = errInvalidFormat

(* C7: the built-in validation rejects OTLP settings that are not allowed:
   a configuration whose logger.otlp.protocol is neither grpc nor http, or
   whose logger.otlp.timeout is no valid duration, makes loading fail.
   This is the claim as stated; validateConfig has no OTLP rule. *)
C7_OtlpSettingsValidated ==
    (Ran /\ (\/ kOtlpProtocol \in DOMAIN yaml /\ yaml[kOtlpProtocol] \notin {"grpc", "http"}
             \/ kOtlpTimeout \in DOMAIN yaml /\ yaml[kOtlpTimeout] \notin {"10s", "5s"}))
        => err # NoErr

\* the demos that start no HTTP server
ServerlessDemos == {defaultFieldsDemo, customFieldsDemo}

HealthAsked == response # Nil /\ Deref(response).path = "/health"

HealthyAnswer ==
    /\ Deref(response).answered
    /\ Deref(response).status = 200
    /\ Deref(response).body = "healthy"

(* C8: on any demo of the repository, a GET /health request is answered
   with HTTP 200 and a JSON body containing "status":"healthy". This is the
   claim as stated; two demos start no HTTP server and answer no request. *)
C8_AnyDemoAnswersHealth == HealthAsked => HealthyAnswer

(* C8, amended: on every demo that starts an HTTP server (all but the
   Default Fields demo and the Custom Initial Fields demo), a GET /health
   request is answered with HTTP 200 and a JSON body containing
   "status":"healthy"; the two demos without a server answer no request. *)
C8_ServerDemoAnswersHealth ==
    /\ (HealthAsked /\ demo \notin ServerlessDemos) => HealthyAnswer
    /\ (response # Nil /\ demo \in ServerlessDemos) => ~Deref(response).answered

\* the viper demo, configured by custom.yaml, has answered GET /health
C8_Witness ==
    /\ demo = viperConfigDemo
    /\ yaml = CustomYaml
    /\ listening
    /\ HealthAsked
    /\ HealthyAnswer

\* the precedence the claim states
RuleFile(argv, aenv) ==
    IF argv # <<>> THEN argv[1]
    ELSE IF aenv # <<>> THEN aenv \o <<".yaml">>
    ELSE <<"app", ".yaml">>

\* the last component of a path
BaseName(p) == IF ContainsSlash(p) THEN SubSeq(p, LastSlash(p) + 1, Len(p)) ELSE p

\* the file the demo loads when it is started without arguments
MainWouldLoad == LoadConfigFromFile(RuleFile(<<>>, appEnv), TRUE).loadedFrom

MainFollowsRule ==
    call = "main" =>
      /\ configFile = RuleFile(args, appEnv)
      /\ loadedFrom # <<>> => BaseName(loadedFrom) = BaseName(RuleFile(args, appEnv))

(* C9: the viper demo selects its configuration file by a fixed
   precedence: the first command-line argument when one is given,
   otherwise the value of APP_ENV followed by ".yaml" when APP_ENV is not
   empty, otherwise app.yaml; LoadConfigFromEnv and LoadConfig called with
   an empty name select the same file as this rule for the same APP_ENV.
   This is the claim as stated; it fails for an APP_ENV that contains "/". *)
C9_SameFileForAnyAppEnv ==
    /\ MainFollowsRule
    /\ call \in {"LoadConfigFromEnv", "LoadConfig"} => loadedFrom = MainWouldLoad

(* C9, amended: the precedence of the demo is as stated, and
   LoadConfigFromEnv selects the same file as the rule for every APP_ENV;
   LoadConfig called with an empty path and an empty name selects the same
   file as the rule for every APP_ENV that contains no "/". *)
C9_SameFileForPlainAppEnv ==
    /\ MainFollowsRule
    /\ call = "LoadConfigFromEnv" => loadedFrom = MainWouldLoad
    /\ (call = "LoadConfig" /\ ~ContainsSlash(appEnv)) => loadedFrom = MainWouldLoad

\* LoadConfig("", "") under APP_ENV=production has read config/production.yaml
C9_Witness ==
    /\ call = "LoadConfig"
    /\ appEnv = <<"production">>
    /\ loadedFrom = PathJoin(dirConfig, <<"production", ".yaml">>)
    /\ loadedFrom = MainWouldLoad

ExitKind == Deref(exit).kind

\* the step the process was at when it ended
LastStep == Steps(demo)[pc]

(* C10: no demo ends with an exit code of its own choosing: every demo
   terminates either with the default success status or by a panic abort,
   including when configuration loading or logger construction fails.
   This is the claim as stated; the viper demo calls os.Exit(1). *)
C10_OnlySuccessOrPanic == exit # Nil => ExitKind \in {"return", "panic"}

(* C10, amended: every demo other than the viper demo ends, when it ends by
   itself, by returning from main, by a panic (so when logger construction
   fails) or, when its server cannot start, in the logger's Fatalw; the
   viper demo ends with os.Exit(1), an exit status of its own choosing,
   when configuration loading fails and when logger construction fails,
   and no demo calls os.Exit in any other case. *)
C10_OnlyViperDemoChoosesExitCode ==
    exit # Nil =>
      /\ demo # viperConfigDemo => ExitKind \in {"return", "panic", "Fatalw"}
      /\ (demo # viperConfigDemo /\ loggerErr) => exit = Ref(ExitPanic)
      /\ (demo = viperConfigDemo /\ (err # NoErr \/ loggerErr)) => exit = Ref(OsExit(1))
      /\ ExitKind = "os.Exit" =>
            /\ demo = viperConfigDemo
            /\ exit = Ref(OsExit(1))
            /\ err # NoErr \/ loggerErr
      /\ ExitKind = "Fatalw" => LastStep = "listen"

\* the viper demo has ended with os.Exit(1) on a file that does not parse
C10_Witness ==
    /\ demo = viperConfigDemo
    /\ call = "main"
    /\ ~yamlParses
    /\ err # NoErr
    /\ exit = Ref(OsExit(1))

----------------------------------------------------------------------------
(* The loggers and their records *)

\* the logger whose construction is the step the process is at
LoggerAtStep == Step.lg

RecordsOf(lg) == { i \in DOMAIN records : records[i].logger = lg }

NoLoggers == [lg \in {} |-> Nil]

(* C11: in every demo, an error returned by the logger constructor aborts
   the process: the process has ended by panic or, in the viper demo, by
   os.Exit(1); no route is registered, no server listens, and the logger
   that failed exists for no log call and has written no record. *)
C11_LoggerFailureAborts ==
    loggerErr =>
      /\ exit # Nil
      /\ exit = Ref(IF demo = viperConfigDemo THEN OsExit(1) ELSE ExitPanic)
      /\ routes = {}
      /\ ~listening
      /\ LoggerAtStep \notin DOMAIN loggers
      /\ RecordsOf(LoggerAtStep) = {}

\* the file logging demo has panicked on its error-level logger, after the
\* loggers before it have written their records
C11_Witness ==
    /\ demo = fileLoggingDemo
    /\ loggerErr
    /\ LoggerAtStep = "coreErrorLogger"
    /\ "infoLogger" \in DOMAIN loggers
    /\ records # <<>>
    /\ exit = Ref(ExitPanic)

(* C12: in the viper demo a configuration that cannot be read or that fails
   validation leads to a printed message and the exit of the process before
   the logger is constructed, before any route is registered and before the
   server starts; routes are registered and the server listens only after
   LoadConfigFromFile has succeeded and the logger has been constructed. *)
C12_LoadFailureExitsBeforeLogger ==
    demo = viperConfigDemo =>
      /\ (call = "main" /\ err # NoErr) =>
            /\ printed
            /\ exit = Ref(OsExit(1))
            /\ loggers = NoLoggers
            /\ records = <<>>
            /\ routes = {}
            /\ ~listening
      /\ (routes # {} \/ listening) =>
            /\ call = "main"
            /\ err = NoErr
            /\ config # Nil
            /\ "serviceLogger" \in DOMAIN loggers

\* the viper demo has ended on a file whose logger.level fails validation
C12_Witness ==
    /\ demo = viperConfigDemo
    /\ kLevel \in DOMAIN yaml
    /\ yaml[kLevel] = "trace"
    /\ call = "main"
    /\ err = errInvalidLevel
    /\ printed
    /\ exit = Ref(OsExit(1))
    /\ loggers = NoLoggers

\* the value a record of logger l must carry for the service key k: the one
\* the caller gave in InitialFields, "unknown" without one
ExpectedServiceField(l, k) ==
    IF k \in DOMAIN FieldsOf(l.initial) THEN FieldsOf(l.initial)[k] ELSE "unknown"

(* C13: when a logger is constructed with InitialFields that is absent,
   empty, or lacks service.name or service.version, every record it emits
   carries "unknown" for each missing key and the caller's value for each
   of the two keys that was supplied. *)
C13_UnknownForMissingServiceFields ==
    \A i \in DOMAIN records :
        ~loggers[records[i].logger].derived =>
            \A k \in {kServiceName, kServiceVersion} :
                /\ k \in DOMAIN records[i].fields
                /\ records[i].fields[k] =
                      ExpectedServiceField(loggers[records[i].logger], k)

\* the Default Fields Demo has logged on the logger that was given a
\* service.name only
C13_Witness ==
    /\ demo = defaultFieldsDemo
    /\ \E i \in DOMAIN records :
          /\ records[i].logger = "partialLogger"
          /\ records[i].fields[kServiceName] = "partial-demo-service"
          /\ records[i].fields[kServiceVersion] = "unknown"
    /\ \E i \in DOMAIN records :
          /\ records[i].logger = "basicLogger"
          /\ records[i].fields[kServiceName] = "unknown"

(* C14: for every logger constructed by any demo, the constant fields
   attached to its records always contain a non-empty value for the
   service.name key and a non-empty value for the service.version key, also
   when the build-time version values the demo passes in are empty
   strings. This is the claim; the demos pass version.Get()'s values on as
   they are. *)
C14_ServiceFieldsNeverEmpty ==
    \A lg \in DOMAIN loggers :
        ~loggers[lg].derived =>
            /\ kServiceName \in DOMAIN loggers[lg].fields
            /\ loggers[lg].fields[kServiceName] # ""
            /\ kServiceVersion \in DOMAIN loggers[lg].fields
            /\ loggers[lg].fields[kServiceVersion] # ""

(* C15: every field defined in a logger's InitialFields appears, with its
   configured value, in every log record that logger emits over its whole
   lifetime, whatever runtime fields the log calls of the demos add. *)
C15_InitialFieldsInEveryRecord ==
    \A i \in DOMAIN records :
        ~loggers[records[i].logger].derived =>
            \A k \in DOMAIN FieldsOf(loggers[records[i].logger].initial) :
                /\ k \in DOMAIN records[i].fields
                /\ records[i].fields[k] =
                      FieldsOf(loggers[records[i].logger].initial)[k]

\* the viper demo has logged "Starting server", whose call adds a field
\* named environment, as InitialFields has
C15_Witness ==
    /\ demo = viperConfigDemo
    /\ \E i \in DOMAIN records :
          /\ records[i].msg = "Starting server"
          /\ records[i].fields["environment"] = "production"
          /\ records[i].fields["port"] = ":8083"
          /\ records[i].fields[kServiceName] = "logger-demo"

----------------------------------------------------------------------------
(* The configuration in the responses of the viper demo *)

SensitiveHeaders == {"x-api-key", "authorization"}

\* the OTLP headers of the loaded configuration, and those the last response shows
ConfigHeaders == Deref(Deref(config).Logger.OTLP).Headers
ShownHeaders == Deref(Deref(response).headers)

\* the values the file gives the headers whose name is x-api-key or
\* authorization, in any letter case
FileSecrets ==
    IF kOtlpHeaders \in DOMAIN yaml
    THEN { yaml[kOtlpHeaders][n] :
             n \in { m \in DOMAIN yaml[kOtlpHeaders] : ToLowerName(m) \in SensitiveHeaders } }
    ELSE {}

\* the viper demo has answered GET path with 200
ViperAnswered(path) ==
    /\ demo = viperConfigDemo
    /\ response # Nil
    /\ Deref(response).path = path
    /\ Deref(response).status = 200

\* the last response shows OTLP headers
ShowsHeaders == response # Nil /\ Deref(response).headers # Nil

(* C16: the body of GET /config never contains the configured value of an
   OTLP header named x-api-key or authorization: each such header's value is
   replaced by "***REDACTED***", every other OTLP header is returned with
   its original value, and the set of header names is that of the loaded
   configuration. *)
C16_ConfigRedactsSensitiveHeaders ==
    ViperAnswered("/config") =>
      /\ (Deref(config).Logger.OTLP = Nil) = (Deref(response).headers = Nil)
      /\ ShowsHeaders =>
            /\ DOMAIN ShownHeaders = DOMAIN ConfigHeaders
            /\ \A h \in DOMAIN ShownHeaders :
                  ShownHeaders[h] = IF h \in SensitiveHeaders THEN Redacted
                                    ELSE ConfigHeaders[h]
            /\ \A h \in DOMAIN ShownHeaders : ShownHeaders[h] \notin FileSecrets

\* GET /config of a file that writes the header as Authorization: the value
\* is redacted, the x-tenant header is returned as it is
C16_Witness ==
    /\ ViperAnswered("/config")
    /\ ShowsHeaders
    /\ kOtlpHeaders \in DOMAIN yaml
    /\ yaml[kOtlpHeaders] = (("Authorization" :> "Bearer s3cret") @@ ("x-tenant" :> "acme"))
    /\ ShownHeaders = (("authorization" :> Redacted) @@ ("x-tenant" :> "acme"))

(* C17: sensitive data is removed from API responses: no HTTP response of
   the viper demo, on any route and in any environment, contains the
   unredacted value of the x-api-key or authorization OTLP header of the
   loaded configuration. This is the claim as stated; /debug/config returns
   the configuration as loaded. *)
C17_NoResponseShowsSecret ==
    (demo = viperConfigDemo /\ ShowsHeaders) =>
        \A h \in DOMAIN ShownHeaders \cap SensitiveHeaders : ShownHeaders[h] = Redacted

(* C17, amended: no HTTP response of the viper demo on a route other than
   /debug/config contains the unredacted value of the x-api-key or
   authorization OTLP header of the loaded configuration; /debug/config,
   which is served in the development environment only, returns the raw
   configuration, these headers with their values included. *)
C17_OnlyDebugConfigShowsSecret ==
    (demo = viperConfigDemo /\ ShowsHeaders) =>
      /\ Deref(response).path # "/debug/config" =>
            \A h \in DOMAIN ShownHeaders \cap SensitiveHeaders :
                ShownHeaders[h] = Redacted
      /\ Deref(response).path = "/debug/config" =>
            /\ Deref(config).Server.Environment = "development"
            /\ ShownHeaders = ConfigHeaders

\* GET /debug/config of the README's app.yaml has returned the x-api-key
C17_Witness ==
    /\ ViperAnswered("/debug/config")
    /\ yaml = AppYaml
    /\ ShowsHeaders
    /\ ShownHeaders["x-api-key"] = "demo-key"

(* C18: the /debug/config route exists if and only if the loaded
   server.environment is exactly "development"; the routes are fixed when
   they are registered at startup, and in every other environment a GET
   /debug/config request is not served by the debug handler: it gets 404. *)
C18_DebugRouteInDevelopmentOnly ==
    demo = viperConfigDemo =>
      /\ routes # {} =>
            ("/debug/config" \in routes) =
                (Deref(config).Server.Environment = "development")
      /\ (response # Nil /\ Deref(response).path = "/debug/config") =>
            /\ Deref(response).answered
            /\ (Deref(response).status = 200) =
                  (Deref(config).Server.Environment = "development")
            /\ Deref(config).Server.Environment # "development" =>
                  /\ Deref(response).status = 404
                  /\ Deref(response).headers = Nil

\* the environment is written Development: GET /debug/config gets 404
C18_Witness ==
    /\ demo = viperConfigDemo
    /\ config # Nil
    /\ Deref(config).Server.Environment = "Development"
    /\ response # Nil
    /\ Deref(response).path = "/debug/config"
    /\ Deref(response).status = 404
    /\ "/debug/config" \notin routes
    /\ "/config" \in routes

----------------------------------------------------------------------------
(* The log files of the file logging demo *)

AccessLoggers == {"coreAccessLogger", "accessLogger", "accessLoggerWithContext"}
AppLoggers    == {"coreAppLogger", "appLogger", "appLoggerWithContext"}

AccessRecords == { i \in DOMAIN records : records[i].msg = "HTTP request" }

HandlerMessages ==
    {"Handling root request", "Health check requested",
     "Simulated error endpoint accessed", "Log files listing requested"}

(* C19: in the file logging demo's web server access logs and application
   logs are separated: for every served request exactly one "HTTP request"
   access record is written, after the handler has run, and only to
   logs/access.log; application records are written only to stdout and
   logs/application.log; no record is written to both groups. *)
C19_AccessAndApplicationLogsSeparate ==
    demo = fileLoggingDemo =>
      /\ Cardinality(AccessRecords) = served
      /\ \A i \in DOMAIN records :
            /\ (records[i].logger \in AccessLoggers) = (i \in AccessRecords)
            /\ records[i].logger \in AccessLoggers => records[i].paths = {accessLog}
            /\ records[i].logger \in AppLoggers =>
                  records[i].paths = {"stdout", applicationLog}
            /\ (i \in AccessRecords /\ records[i].fields["status"] # "404") =>
                  /\ i > 1
                  /\ records[i - 1].logger \in AppLoggers
                  /\ records[i - 1].msg \in HandlerMessages

\* the four test requests were served, the last to /error: its access record
\* is on the access logger and follows the handler's record on the
\* application logger
C19_Witness ==
    /\ demo = fileLoggingDemo
    /\ served = Len(testEndpoints)
    /\ Cardinality(AccessRecords) = Len(testEndpoints)
    /\ Len(records) > 3
    /\ records[Len(records) - 1].logger = "accessLoggerWithContext"
    /\ records[Len(records) - 1].fields["path"] = "/error"
    /\ records[Len(records) - 1].fields["status"] = "500"
    /\ records[Len(records) - 2].msg = "Simulated error endpoint accessed"

LevelDemoLoggers == {"infoLogger", "errorLogger"}

(* C20: in the level-based demo logs of different levels are stored in
   different files: logs/error.log contains only records of level error or
   above, and every error-level record the demo emits is stored in
   logs/error.log and not in logs/info.log. This is the claim as stated; the
   info logger takes the records of level info and above. *)
C20_ErrorRecordsOnlyInErrorLog ==
    \A i \in DOMAIN records :
        records[i].logger \in LevelDemoLoggers =>
          /\ errorLog \in records[i].paths =>
                LevelRank(records[i].level) >= LevelRank("error")
          /\ records[i].level = "error" =>
                /\ errorLog \in records[i].paths
                /\ infoLog \notin records[i].paths

(* C20, amended: in the level-based demo each logger writes to its own file:
   logs/error.log contains only records of level error or above, those
   emitted on the error logger; logs/info.log contains the records of level
   info and above emitted on the info logger, its error-level record
   "Failed to connect to database" included, which is not stored in
   logs/error.log. *)
C20_EachLoggerWritesItsOwnFile ==
    \A i \in DOMAIN records :
        records[i].logger \in LevelDemoLoggers =>
          /\ errorLog \in records[i].paths =>
                LevelRank(records[i].level) >= LevelRank("error")
          /\ infoLog \in records[i].paths =>
                LevelRank(records[i].level) >= LevelRank("info")
          /\ records[i].paths =
                IF records[i].logger = "errorLogger" THEN {errorLog} ELSE {infoLog}
          /\ records[i].msg = "Failed to connect to database" =>
                /\ records[i].level = "error"
                /\ records[i].paths = {infoLog}

\* the level-based demo has written its five records: three on the info
\* logger, the third of level error, and two on the error logger
C20_Witness ==
    /\ demo = fileLoggingDemo
    /\ \E i \in DOMAIN records :
          /\ records[i].msg = "Failed to connect to database"
          /\ records[i].level = "error"
          /\ records[i].paths = {infoLog}
    /\ \E i \in DOMAIN records :
          /\ records[i].msg = "Critical system error"
          /\ records[i].paths = {errorLog}

----------------------------------------------------------------------------
(* C21 *)

\* the record written last
LastRecord == records[Len(records)]

ShutdownMessages == {"Server shutdown completed", "Server shutdown failed"}

\* main has returned after the four test requests and the shutdown, whose
\* outcome is the last record
WebServerDemoDone ==
    /\ exit = Ref(ExitReturn)
    /\ tested = Len(testEndpoints)
    /\ records # <<>>
    /\ LastRecord.logger = "appLoggerWithContext"
    /\ LastRecord.msg \in ShutdownMessages

(* C21: the web server demo always terminates. Once the file logging demo has
   started its server in the background, listening or not, it makes its four
   test requests, answered or failed, calls the server's shutdown, logs that
   the shutdown completed or failed, and returns. *)
C21_WebServerDemoTerminates ==
    (demo = fileLoggingDemo /\ Serving) ~> WebServerDemoDone

\* the server never listened, the four test requests failed, and the demo
\* still shut down and returned
C21_Witness ==
    /\ WebServerDemoDone
    /\ served = 0
    /\ \E i \in DOMAIN records : records[i].msg = "Server failed to start"
    /\ Cardinality({ i \in DOMAIN records :
                       records[i].msg = "Test request failed" }) = Len(testEndpoints)

----------------------------------------------------------------------------
(* C22 *)

\* the viper demo has loaded its configuration
ViperLoaded == demo = viperConfigDemo /\ call = "main" /\ err = NoErr

\* what LoadConfigFromFile returned to main: the surroundings do not change
\* once main runs
LoadedConfigs ==
    { LoadConfigFromFile(configFile, durationField).config : durationField \in BOOLEAN }

(* C22: the logger option returned with the Config holds copies of the
   Config's logger values. After main has added its initial fields to the
   option, the Config, which GET /config reports, still equals what was
   loaded from file, environment and defaults. *)
C22_OptionIsACopy ==
    ViperLoaded => config \in LoadedConfigs

----------------------------------------------------------------------------
(* C23 *)

(* C23: serving requests never changes the loaded configuration. A request
   to the listening server, GET /config with its call of sanitizeConfig
   included, leaves the Config and the logger option as they were, OTLP
   headers and their values included. *)
C23_ServingLeavesConfig ==
    [][listening => (config' = config /\ logOption' = logOption)]_vars

\* the viper demo has answered two requests, the second to /config with a
\* redacted header, and its Config still holds the header's value
C23_Witness ==
    /\ ViperAnswered("/config")
    /\ served = 2
    /\ ShowsHeaders
    /\ \E h \in DOMAIN ShownHeaders \cap SensitiveHeaders :
          /\ ShownHeaders[h] = Redacted
          /\ ConfigHeaders[h] # Redacted
    /\ logOption = Ref(Deref(config).Logger)

----------------------------------------------------------------------------
(* C24 *)

\* ToLoggerOption was called on a manager that holds no loaded configuration
AskedWithoutLoad ==
    /\ call = "ToLoggerOption"
    /\ manager # Nil
    /\ Deref(manager).loadErr # NoErr

(* C24: ToLoggerOption hands out a logger option only when a configuration
   has been loaded. On a manager whose LoadConfig was never called or
   returned an error it returns the error "configuration not loaded" and no
   option. *)
C24_NoOptionWithoutLoad ==
    AskedWithoutLoad => (err = "configuration not loaded" /\ logOption = Nil)

----------------------------------------------------------------------------
(* C25 *)

\* the argument LoadConfigFromFile was called with, by main or by
\* LoadConfigFromEnv
GivenFile ==
    IF call = "main" THEN configFile
    ELSE (IF appEnv = <<>> THEN <<"app">> ELSE appEnv) \o <<".yaml">>

\* the one file a path names: the path itself, or ./config/<name> for a
\* bare file name
ExactFile(filePath) ==
    IF ContainsSlash(filePath) THEN filePath ELSE PathJoin(dirConfig, filePath)

(* C25: LoadConfigFromFile loads the specific file it is given. For a path
   dir/name.yaml it reads the file at exactly that path or returns an error,
   and never a file of the same name in another directory; for a bare file
   name it reads ./config/<name>. *)
C25_LoadsTheGivenFile ==
    (call \in {"main", "LoadConfigFromEnv"} /\ loadedFrom # <<>>)
        => loadedFrom = ExactFile(GivenFile)

----------------------------------------------------------------------------
(* C26 *)

MiddlewareMessage == "HTTP request processed"

\* the viper demo's server takes a request in this step
ViperRequest == demo = viperConfigDemo /\ served' = served + 1

\* the step writes records, the last of them is the middleware's and carries
\* the path and the status of the response, and no other of them is the
\* middleware's
OneMiddlewareRecordLast ==
    /\ Len(records') > Len(records)
    /\ records'[Len(records')].msg = MiddlewareMessage
    /\ {"path", "status"} \subseteq DOMAIN records'[Len(records')].fields
    /\ records'[Len(records')].fields["path"] = Deref(response').path
    /\ records'[Len(records')].fields["status"] = ToString(Deref(response').status)
    /\ \A i \in (Len(records) + 1)..(Len(records') - 1) :
          records'[i].msg # MiddlewareMessage

\* the service logger writes records of level info
InfoWritten ==
    /\ "serviceLogger" \in DOMAIN loggers
    /\ Enabled(loggers["serviceLogger"].level, "info")

(* C26: for every HTTP request the viper demo receives, requests to
   unregistered routes included, the logging middleware emits exactly one
   "HTTP request processed" record, after the handler has finished and after
   the handler's own records, with the status the handler set. This is the
   claim as stated; it fails when the configured level is above info. *)
C26_OneRecordPerRequest ==
    [][ViperRequest => OneMiddlewareRecordLast]_vars

(* C26, amended: the same, for a configured logger level of debug or info;
   at a level of warn, error or fatal the middleware's Infow writes no
   record. *)
C26_OneRecordPerRequestAtInfo ==
    [][(ViperRequest /\ InfoWritten) => OneMiddlewareRecordLast]_vars

\* two requests were answered: GET /config, whose handler record is followed
\* by the middleware's with status 200, and then one to an unregistered
\* route, whose middleware record, with status 404, is the last
C26_Witness ==
    /\ demo = viperConfigDemo
    /\ served = 2
    /\ Deref(response).status = 404
    /\ LastRecord.msg = MiddlewareMessage
    /\ LastRecord.fields["status"] = "404"
    /\ \E i \in 1..(Len(records) - 1) :
          /\ records[i].msg = "Configuration info requested"
          /\ records[i + 1].msg = MiddlewareMessage
          /\ records[i + 1].fields["status"] = "200"

----------------------------------------------------------------------------
(* C27 *)

\* PORT is set and not empty
PortSet == "PORT" \in DOMAIN environ /\ environ["PORT"] # ""

\* a health check ran while the server was listening
CheckedWhileUp == health # Nil /\ Deref(health).up

(* C27: when PORT is not set, as in the Docker image, gin-demo listens on the
   port the image exposes and its HEALTHCHECK probes, so a health check that
   runs while the server is up succeeds; when PORT is set and not empty the
   server listens on that port. *)
C27_HealthcheckReachesServer ==
    (demo = ginDemo /\ listening) =>
        /\ ~PortSet => addr = ":" \o ExposedPort
        /\ (~PortSet /\ CheckedWhileUp) => Deref(health).ok
        /\ PortSet => addr = ":" \o environ["PORT"]

====
